---- MODULE Spec2Model ----
(***************************************************************************)
(* Model of Check_list_ocupalli.py: the clinic checklist application.      *)
(*                                                                         *)
(*   SistemaClinico        procedure catalog, mandatory list, PDF layout   *)
(*   GerenciadorHistorico  the record store                                *)
(*   GerenciadorInterface  the form handlers (selection, generate, ...)    *)
(*   InterfaceHistorico    the history window (load, reopen PDF)           *)
(*                                                                         *)
(* Strings that the code inspects character by character (person name,    *)
(* CPF) are sequences of one-character strings.  Procedure names are only  *)
(* compared for equality and are TLA+ strings.                             *)
(***************************************************************************)
EXTENDS Integers, Sequences, FiniteSets, TLC

VARIABLES
    fase,                       \* position of the process / of the routine under study
    passos,                     \* number of operations performed so far (bounded)
    chamada,                    \* the last operation performed and its outcome
    procedimentos_db,           \* SistemaClinico.procedimentos_db: name -> [requer_laudo]
    procedimentos_obrigatorios, \* SistemaClinico.procedimentos_obrigatorios (list)
    arq_procedimentos,          \* content of procedimentos.json
    arq_config,                 \* content of config.json
    historico,                  \* GerenciadorHistorico.historico (list of records)
    arq_historico,              \* content of historico_checklists.json
    procedimentos_selecionados, \* GerenciadorInterface.procedimentos_selecionados (list)
    nome_field,                 \* GerenciadorInterface.nome_field.value
    cpf_field,                  \* GerenciadorInterface.cpf_field.value
    tipo_exame,                 \* TipoExameModerno._valor_selecionado
    renderizado,                \* the last call of gerar_pdf_checklist and the file it made
    agora,                      \* the last instant read from the clock
    tamanhos,                   \* gerar_pdf_checklist: the eight computed sizes
    y_position,                 \* gerar_pdf_checklist: y_position, in 1/127 point
    entrada                     \* the list as it was before the last call of the routine under study

varsCatalogo == <<procedimentos_db, procedimentos_obrigatorios, arq_procedimentos, arq_config>>
varsHistorico == <<historico, arq_historico>>
varsFormulario == <<nome_field, cpf_field, tipo_exame>>
varsPdf == <<renderizado, agora>>
varsLayout == <<tamanhos, y_position>>

vars == <<fase, passos, chamada, varsCatalogo, varsHistorico, procedimentos_selecionados,
          varsFormulario, varsPdf, varsLayout, entrada>>

----------------------------------------------------------------------------
(* Generic helpers                                                          *)

Max(a, b) == IF a >= b THEN a ELSE b

Range(s) == {s[i] : i \in 1..Len(s)}

\* Python's `x in lista`
Contem(lista, x) == \E i \in 1..Len(lista) : lista[i] = x

\* a value no variable of the program holds: the variable is not in use
Nenhum == "nenhum"

\* the variables a specification does not use keep these values
SemContador == passos = 0 /\ chamada = Nenhum
SemArquivos == arq_procedimentos = Nenhum /\ arq_config = Nenhum
SemHistorico == historico = <<>> /\ arq_historico = Nenhum
SemSelecao == procedimentos_selecionados = <<>>
SemFormulario == nome_field = <<>> /\ cpf_field = <<>> /\ tipo_exame = Nenhum
SemPdf == renderizado = Nenhum /\ agora = 0
SemLayout == tamanhos = Nenhum /\ y_position = 0

----------------------------------------------------------------------------
(* SistemaClinico.gerar_pdf_checklist: adaptive sizing of the body          *)
(*                                                                          *)
(* reportlab's A4 is (210*mm, 297*mm) with mm = 72/25.4 point, so           *)
(* height = 297*72/25.4 = 106920/127 point.  Every y coordinate of the      *)
(* model is the code's coordinate multiplied by 127, which keeps the        *)
(* arithmetic in the integers.  fator_escala = espaco_disponivel /          *)
(* espaco_necessario is never within float rounding of a value that makes   *)
(* nominal * fator_escala an integer (127 is prime and divides neither      *)
(* 62470 nor a nominal size), so int(nominal * fator_escala) is the floor   *)
(* of the exact quotient.                                                   *)

Den == 127
height == 106920

\* procedimento_requer_laudo: self.procedimentos_db.get(p, {}).get("requer_laudo", False)
procedimento_requer_laudo(db, procedimento) ==
    IF procedimento \in DOMAIN db THEN db[procedimento].requer_laudo ELSE FALSE

\* y_inicio = height - 270, y_final = 80 (both times Den)
y_inicio == height - 270 * Den
y_final == 80 * Den
espaco_disponivel == y_inicio - y_final

\* nominal sizes (the else branch) and the floors (first argument of max)
Nominal ==
    [fonte_numero |-> 14, fonte_procedimento |-> 12, fonte_subitem |-> 10,
     espaco_procedimento |-> 25, espaco_subitem |-> 20, espaco_extra |-> 10,
     tamanho_checkbox |-> 15, tamanho_subcheckbox |-> 12]

Minimo ==
    [fonte_numero |-> 10, fonte_procedimento |-> 9, fonte_subitem |-> 8,
     espaco_procedimento |-> 18, espaco_subitem |-> 15, espaco_extra |-> 5,
     tamanho_checkbox |-> 12, tamanho_subcheckbox |-> 10]

Campos == DOMAIN Nominal

\* calcular_espaco_necessario(): 25 per procedure, 20 more with a report, 10 between
RECURSIVE calcular_espaco_necessario(_, _)
calcular_espaco_necessario(db, procs) ==
    IF procs = <<>> THEN 0
    ELSE 25 + (IF procedimento_requer_laudo(db, Head(procs)) THEN 20 ELSE 0) + 10
         + calcular_espaco_necessario(db, Tail(procs))

\* max(minimo, int(nominal * fator_escala)), fator_escala = disponivel / necessario
EscalarSemPiso(nominal, minimo, necessario) ==
    (nominal * espaco_disponivel) \div (Den * necessario)

Escalar(nominal, minimo, necessario) ==
    Max(minimo, (nominal * espaco_disponivel) \div (Den * necessario))

\* the if/else that sets the eight sizes
calcular_tamanhos(db, procs) ==
    LET espaco_necessario == calcular_espaco_necessario(db, procs)
    IN  IF espaco_necessario * Den > espaco_disponivel
        THEN [c \in Campos |-> Escalar(Nominal[c], Minimo[c], espaco_necessario)]
        ELSE Nominal

\* the drawing loop: y_position after the last procedure (times Den)
RECURSIVE desenhar_procedimentos(_, _, _, _)
desenhar_procedimentos(db, procs, tam, y) ==
    IF procs = <<>> THEN y
    ELSE LET y1 == y - tam.espaco_procedimento * Den
             y2 == IF procedimento_requer_laudo(db, Head(procs))
                   THEN y1 - tam.espaco_subitem * Den ELSE y1
             y3 == y2 - tam.espaco_extra * Den
         IN  desenhar_procedimentos(db, Tail(procs), tam, y3)

----------------------------------------------------------------------------
(* Specification of the layout routine: any catalog of up to MaxProcs       *)
(* procedures with any requires-report flags, all of them selected          *)

MaxProcs == 14

NomesLayout ==
    <<"P01", "P02", "P03", "P04", "P05", "P06", "P07", "P08", "P09", "P10",
      "P11", "P12", "P13", "P14", "P15", "P16", "P17", "P18">>

InitLayout ==
    /\ fase = "layout_inicio"
    /\ \E n \in 0..MaxProcs :
          /\ procedimentos_selecionados = SubSeq(NomesLayout, 1, n)
          /\ procedimentos_db \in
                [{NomesLayout[i] : i \in 1..n} -> [requer_laudo : BOOLEAN]]
    /\ procedimentos_obrigatorios = <<>>
    /\ tamanhos = Nenhum
    /\ y_position = y_inicio
    /\ entrada = Nenhum
    /\ SemContador /\ SemArquivos /\ SemHistorico /\ SemFormulario /\ SemPdf

CalcularTamanhos ==
    /\ fase = "layout_inicio"
    /\ tamanhos' = calcular_tamanhos(procedimentos_db, procedimentos_selecionados)
    /\ fase' = "layout_tamanhos"
    /\ UNCHANGED <<passos, chamada, varsCatalogo, varsHistorico,
                   procedimentos_selecionados, varsFormulario, varsPdf,
                   y_position, entrada>>

DesenharProcedimentos ==
    /\ fase = "layout_tamanhos"
    /\ y_position' = desenhar_procedimentos(procedimentos_db,
                         procedimentos_selecionados, tamanhos, y_position)
    /\ fase' = "layout_desenhado"
    /\ UNCHANGED <<passos, chamada, varsCatalogo, varsHistorico,
                   procedimentos_selecionados, varsFormulario, varsPdf,
                   tamanhos, entrada>>

NextLayout == CalcularTamanhos \/ DesenharProcedimentos

SpecLayout == InitLayout /\ [][NextLayout]_vars

\* nominal space of the selected list, counted without the routine:
\* 25 + 10 per procedure, 20 more for each one that requires a report
EspacoNominal ==
    35 * Len(procedimentos_selecionados)
    + 20 * Cardinality({i \in 1..Len(procedimentos_selecionados) :
            procedimento_requer_laudo(procedimentos_db, procedimentos_selecionados[i])})

\* C1: once the body is drawn, the height consumed (y_inicio - y_position) is at
\* most the available height (y_inicio - y_final): the list ends above the
\* footer margin.
C1_AlturaCabe ==
    fase = "layout_desenhado" => y_inicio - y_position <= espaco_disponivel

\* the claim's ranges [floor, nominal] of the eight sizes
C2_Faixa ==
    [fonte_numero |-> <<10, 14>>, fonte_procedimento |-> <<9, 12>>,
     fonte_subitem |-> <<8, 10>>, espaco_procedimento |-> <<18, 25>>,
     espaco_subitem |-> <<15, 20>>, espaco_extra |-> <<5, 10>>,
     tamanho_checkbox |-> <<12, 15>>, tamanho_subcheckbox |-> <<10, 12>>]

\* C2: when the nominal space exceeds the available space every size is
\* nominal * available / required truncated to an integer and clamped to its
\* floor, hence within [floor, nominal]; when the nominal space fits, the eight
\* sizes are the nominal ones.  (q is the truncation of x iff q <= x < q + 1.)
C2_TamanhosEscalados ==
    fase \in {"layout_tamanhos", "layout_desenhado"} =>
        LET nec == EspacoNominal
            disp == height - 350 * Den
        IN  /\ DOMAIN tamanhos = DOMAIN C2_Faixa
            /\ \A c \in DOMAIN C2_Faixa :
                 LET piso == C2_Faixa[c][1]
                     nom == C2_Faixa[c][2]
                     q == tamanhos[c]
                 IN  IF nec * Den > disp
                     THEN /\ piso <= q /\ q <= nom
                          /\ \/ /\ q * Den * nec <= nom * disp
                                /\ nom * disp < (q + 1) * Den * nec
                             \/ /\ q = piso
                                /\ nom * disp < piso * Den * nec
                     ELSE q = nom

\* C2's case: the list does not fit, one size sits on its floor and another is
\* scaled strictly between its floor and its nominal value
C2_Witness ==
    /\ fase = "layout_tamanhos"
    /\ EspacoNominal * Den > espaco_disponivel
    /\ tamanhos.espaco_subitem = 15
    /\ tamanhos.espaco_extra \in 6..9

----------------------------------------------------------------------------
(* GerenciadorInterface._ordenar_procedimentos                              *)

\* list.remove(x): the list without its first occurrence of x
RECURSIVE remove(_, _)
remove(lista, x) ==
    IF lista = <<>> THEN <<>>
    ELSE IF Head(lista) = x THEN Tail(lista)
         ELSE <<Head(lista)>> \o remove(Tail(lista), x)

\* the routine with the two special names exchanged
ordenar_trocado(sel) ==
    IF sel = <<>> THEN sel
    ELSE LET triagem == Contem(sel, "Triagem")
             faturamento == Contem(sel, "Faturamento")
             s1 == IF triagem THEN remove(sel, "Triagem") ELSE sel
             s2 == IF faturamento THEN remove(s1, "Faturamento") ELSE s1
             s3 == IF faturamento THEN <<"Faturamento">> \o s2 ELSE s2
         IN  IF triagem THEN Append(s3, "Triagem") ELSE s3

\* _ordenar_procedimentos: Triagem first, Faturamento last
ordenar_procedimentos(sel) ==
    IF sel = <<>> THEN sel
    ELSE LET triagem == Contem(sel, "Triagem")
             faturamento == Contem(sel, "Faturamento")
             s1 == IF triagem THEN remove(sel, "Triagem") ELSE sel
             s2 == IF faturamento THEN remove(s1, "Faturamento") ELSE s1
             s3 == IF triagem THEN <<"Triagem">> \o s2 ELSE s2
         IN  IF faturamento THEN Append(s3, "Faturamento") ELSE s3

(* Specification of the ordering routine: any selection without duplicates  *)
(* of up to MaxOrdenar names, ordered once and then once more               *)

MaxOrdenar == 4

NomesOrdenar == {"Triagem", "Faturamento", "Exame Clínico", "Audiometria", "Glicemia"}

SemRepeticao(lista) ==
    \A i, j \in 1..Len(lista) : i # j => lista[i] # lista[j]

InitOrdenar ==
    /\ fase = "ordenar_inicio"
    /\ procedimentos_selecionados \in
          {l \in UNION {[1..n -> NomesOrdenar] : n \in 0..MaxOrdenar} : SemRepeticao(l)}
    /\ procedimentos_db = <<>>
    /\ procedimentos_obrigatorios = <<>>
    /\ entrada = Nenhum
    /\ SemContador /\ SemArquivos /\ SemHistorico /\ SemFormulario /\ SemPdf /\ SemLayout

Ordenar ==
    /\ fase \in {"ordenar_inicio", "ordenar_1"}
    /\ entrada' = procedimentos_selecionados
    /\ procedimentos_selecionados' = ordenar_procedimentos(procedimentos_selecionados)
    /\ fase' = IF fase = "ordenar_inicio" THEN "ordenar_1" ELSE "ordenar_2"
    /\ UNCHANGED <<passos, chamada, varsCatalogo, varsHistorico, varsFormulario,
                   varsPdf, varsLayout>>

NextOrdenar == Ordenar

SpecOrdenar == InitOrdenar /\ [][NextOrdenar]_vars

Ocorrencias(lista, x) == Cardinality({i \in 1..Len(lista) : lista[i] = x})

Posicao(lista, x) == CHOOSE i \in 1..Len(lista) : lista[i] = x

\* C7: the ordered list is a permutation of the list it was given, with Triagem
\* (if present) first, Faturamento (if present) last and the other names in
\* their original relative order; ordering an ordered list changes nothing.
C7_OrdenacaoCorreta ==
    fase \in {"ordenar_1", "ordenar_2"} =>
        LET antes == entrada
            depois == procedimentos_selecionados
            outros == Range(antes) \ {"Triagem", "Faturamento"}
        IN  /\ Len(depois) = Len(antes)
            /\ \A x \in Range(antes) \cup Range(depois) :
                   Ocorrencias(depois, x) = Ocorrencias(antes, x)
            /\ Contem(depois, "Triagem") => depois[1] = "Triagem"
            /\ Contem(depois, "Faturamento") => depois[Len(depois)] = "Faturamento"
            /\ \A x, y \in outros :
                   Posicao(antes, x) < Posicao(antes, y)
                       => Posicao(depois, x) < Posicao(depois, y)
            /\ fase = "ordenar_2" => depois = antes

\* C7's case: a selection with Faturamento before Triagem and two other names
\* around them has been ordered
C7_Witness ==
    /\ fase = "ordenar_1"
    /\ entrada = <<"Faturamento", "Glicemia", "Triagem", "Audiometria">>
    /\ procedimentos_selecionados = <<"Triagem", "Glicemia", "Audiometria", "Faturamento">>

----------------------------------------------------------------------------
(* SistemaClinico: the procedure catalog and the mandatory list             *)

\* obrigatorios_padrao / the default of procedimentos_obrigatorios
obrigatorios_padrao == <<"Exame Clínico", "Faturamento", "Triagem">>

\* procedimentos_iniciais of carregar_dados
procedimentos_iniciais ==
    <<"Exame Clínico", "Faturamento", "Triagem", "Audiometria", "Espirometria",
      "Eletrocardiograma", "Hemograma Completo", "Glicemia",
      "Exame de Urina", "Raio-X Tórax", "Acuidade Visual", "Exame Dermatológico">>

\* {"requer_laudo": False}
SemLaudo == [requer_laudo |-> FALSE]

\* a dict with one more key (or one key overwritten)
ComChave(db, nome, dados) ==
    [n \in DOMAIN db \cup {nome} |-> IF n = nome THEN dados ELSE db[n]]

\* del db[nome]
SemChave(db, nome) == [n \in DOMAIN db \ {nome} |-> db[n]]

\* a file is absent, holds text that is not JSON, or holds a JSON value
Ausente == [estado |-> "ausente"]
Malformado == [estado |-> "malformado"]

\* json.dump(self.procedimentos_db): the catalog file in the mapping format
salvar_procedimentos(db) == [estado |-> "dict", dados |-> db]

\* json.dump(config): logo paths (never set in the model) and the mandatory list
salvar_config(obrig) ==
    [estado |-> "json",
     config |-> [logo_path |-> "None", logo_pdf_path |-> "None",
                 procedimentos_obrigatorios |-> obrig]]

\* for x in nomes: if x not in lista: lista.append(x)
\* (the first loop of _garantir_procedimentos_obrigatorios_completos, and the
\* loops of _garantir_procedimentos_obrigatorios and _adicionar_obrigatorios)
RECURSIVE acrescentar_faltantes(_, _)
acrescentar_faltantes(lista, nomes) ==
    IF nomes = <<>> THEN lista
    ELSE acrescentar_faltantes(
            IF Contem(lista, Head(nomes)) THEN lista ELSE Append(lista, Head(nomes)),
            Tail(nomes))

\* a variant of the second loop that adds the baseline names with a report
RECURSIVE garantir_db_com_laudo(_, _)
garantir_db_com_laudo(db, padrao) ==
    IF padrao = <<>> THEN db
    ELSE garantir_db_com_laudo(
            IF Head(padrao) \in DOMAIN db THEN db
            ELSE ComChave(db, Head(padrao), [requer_laudo |-> TRUE]),
            Tail(padrao))

\* a variant of the second loop that adds nothing
garantir_db_nada(db, padrao) == db

\* the second loop: the catalog with the baseline names it lacks added
RECURSIVE garantir_db(_, _)
garantir_db(db, padrao) ==
    IF padrao = <<>> THEN db
    ELSE garantir_db(
            IF Head(padrao) \in DOMAIN db THEN db ELSE ComChave(db, Head(padrao), SemLaudo),
            Tail(padrao))

\* SistemaClinico.__init__: carregar_dados, then the reconciliation, which saves
\* both files.  json.load of a file that is not JSON raises, and nothing catches
\* it: the object is not constructed (ok = FALSE); the catalog file written for a
\* missing procedimentos.json stays written.
SistemaClinico(arq_p, arq_c) ==
    LET falha(ap) == [ok |-> FALSE, db |-> <<>>, obrig |-> <<>>,
                      arq_procedimentos |-> ap, arq_config |-> arq_c]
        db0 == CASE arq_p.estado = "ausente" ->
                      [n \in Range(procedimentos_iniciais) |-> SemLaudo]
                 [] arq_p.estado = "lista" -> [n \in Range(arq_p.lista) |-> SemLaudo]
                 [] OTHER -> arq_p.dados
        arq_p1 == IF arq_p.estado = "ausente" THEN salvar_procedimentos(db0) ELSE arq_p
        obrig0 == IF arq_c.estado = "json"
                     /\ "procedimentos_obrigatorios" \in DOMAIN arq_c.config
                  THEN arq_c.config.procedimentos_obrigatorios
                  ELSE obrigatorios_padrao
        obrig1 == acrescentar_faltantes(obrig0, obrigatorios_padrao)
        db1 == garantir_db(db0, obrigatorios_padrao)
    IN  IF arq_p.estado = "malformado" THEN falha(arq_p)
        ELSE IF arq_c.estado = "malformado" THEN falha(arq_p1)
        ELSE [ok |-> TRUE, db |-> db1, obrig |-> obrig1,
              arq_procedimentos |-> salvar_procedimentos(db1),
              arq_config |-> salvar_config(obrig1)]

\* a variant of adicionar_procedimento without the test for an existing key
adicionar_sem_verificar(db, procedimento) ==
    IF procedimento # ""
    THEN [retorno |-> TRUE, db |-> ComChave(db, procedimento, SemLaudo)]
    ELSE [retorno |-> FALSE, db |-> db]

\* adicionar_procedimento
adicionar_procedimento(db, procedimento) ==
    IF procedimento # "" /\ procedimento \notin DOMAIN db
    THEN [retorno |-> TRUE, db |-> ComChave(db, procedimento, SemLaudo)]
    ELSE [retorno |-> FALSE, db |-> db]

\* remover_procedimento_db
remover_procedimento_db(db, procedimento) ==
    IF procedimento \in DOMAIN db
    THEN [retorno |-> TRUE, db |-> SemChave(db, procedimento)]
    ELSE [retorno |-> FALSE, db |-> db]

\* definir_requer_laudo
definir_requer_laudo(db, procedimento, requer) ==
    IF procedimento \in DOMAIN db
    THEN [retorno |-> TRUE, db |-> ComChave(db, procedimento, [requer_laudo |-> requer])]
    ELSE [retorno |-> FALSE, db |-> db]

\* alternar_obrigatorio: always returns True
alternar_obrigatorio(obrig, procedimento) ==
    IF Contem(obrig, procedimento) THEN remove(obrig, procedimento)
    ELSE Append(obrig, procedimento)

\* list.index(x): the position of the first occurrence
index(lista, x) == CHOOSE i \in 1..Len(lista) :
                      lista[i] = x /\ \A j \in 1..(i - 1) : lista[j] # x

\* a variant of editar_procedimento_db that leaves the mandatory list alone
editar_sem_obrigatorios(db, obrig, antigo, novo) ==
    IF antigo \in DOMAIN db /\ novo # ""
    THEN [retorno |-> TRUE,
          db |-> ComChave(SemChave(db, antigo), novo, db[antigo]),
          obrig |-> obrig]
    ELSE [retorno |-> FALSE, db |-> db, obrig |-> obrig]

\* editar_procedimento_db
editar_procedimento_db(db, obrig, antigo, novo) ==
    IF antigo \in DOMAIN db /\ novo # ""
    THEN [retorno |-> TRUE,
          db |-> ComChave(SemChave(db, antigo), novo, db[antigo]),
          obrig |-> IF Contem(obrig, antigo)
                    THEN [obrig EXCEPT ![index(obrig, antigo)] = novo]
                    ELSE obrig]
    ELSE [retorno |-> FALSE, db |-> db, obrig |-> obrig]

----------------------------------------------------------------------------
(* Specification of the catalog: a SistemaClinico is constructed from the    *)
(* files found on disk, then its operations are called with any arguments    *)

MaxPassosCatalogo == 3

\* the names the operations are called with; "" is the empty name
NomesCatalogo == {"Exame Clínico", "Faturamento", "Triagem", "Espirometria", "Ergometria"}

\* what procedimentos.json may hold at startup: nothing, text that is not JSON,
\* the default catalog, a catalog without some baseline names, a legacy list
ArquivosProcedimentosIniciais ==
    {Ausente, Malformado,
     salvar_procedimentos([n \in Range(procedimentos_iniciais) |-> SemLaudo]),
     salvar_procedimentos([n \in {"Espirometria", "Triagem"} |->
                              [requer_laudo |-> (n = "Espirometria")]]),
     [estado |-> "lista", lista |-> <<"Espirometria", "Faturamento">>]}

\* what config.json may hold at startup: nothing, text that is not JSON, the
\* default list, a list saved by an earlier session, a config without the key
ArquivosConfigIniciais ==
    {Ausente, Malformado,
     salvar_config(obrigatorios_padrao),
     salvar_config(<<"Espirometria", "Triagem">>),
     [estado |-> "json", config |-> [logo_path |-> "None"]]}

InitCatalogo ==
    /\ fase = "inicio"
    /\ passos = 0
    /\ chamada = [op |-> "nenhuma"]
    /\ procedimentos_db = <<>>
    /\ procedimentos_obrigatorios = <<>>
    /\ arq_procedimentos \in ArquivosProcedimentosIniciais
    /\ arq_config \in ArquivosConfigIniciais
    /\ entrada = Nenhum
    /\ SemHistorico /\ SemSelecao /\ SemFormulario /\ SemPdf /\ SemLayout

foraDoCatalogo == <<varsHistorico, procedimentos_selecionados, varsFormulario,
                    varsPdf, varsLayout, entrada>>

\* sistema = SistemaClinico()
Construir ==
    /\ fase = "inicio"
    /\ LET r == SistemaClinico(arq_procedimentos, arq_config)
       IN  /\ fase' = IF r.ok THEN "pronto" ELSE "erro"
           /\ procedimentos_db' = r.db
           /\ procedimentos_obrigatorios' = r.obrig
           /\ arq_procedimentos' = r.arq_procedimentos
           /\ arq_config' = r.arq_config
           /\ chamada' = [op |-> "SistemaClinico", retorno |-> r.ok]
    /\ UNCHANGED <<passos, foraDoCatalogo>>

Pronto == fase = "pronto" /\ passos < MaxPassosCatalogo

\* sistema.adicionar_procedimento(procedimento)
AdicionarProcedimentoDb(procedimento) ==
    /\ Pronto
    /\ LET r == adicionar_procedimento(procedimentos_db, procedimento)
       IN  /\ procedimentos_db' = r.db
           /\ arq_procedimentos' =
                 IF r.retorno THEN salvar_procedimentos(r.db) ELSE arq_procedimentos
           /\ chamada' = [op |-> "adicionar_procedimento", arg1 |-> procedimento,
                          retorno |-> r.retorno]
    /\ passos' = passos + 1
    /\ UNCHANGED <<fase, procedimentos_obrigatorios, arq_config, foraDoCatalogo>>

\* sistema.remover_procedimento_db(procedimento)
RemoverProcedimentoDb(procedimento) ==
    /\ Pronto
    /\ LET r == remover_procedimento_db(procedimentos_db, procedimento)
       IN  /\ procedimentos_db' = r.db
           /\ arq_procedimentos' =
                 IF r.retorno THEN salvar_procedimentos(r.db) ELSE arq_procedimentos
           /\ chamada' = [op |-> "remover_procedimento_db", arg1 |-> procedimento,
                          retorno |-> r.retorno]
    /\ passos' = passos + 1
    /\ UNCHANGED <<fase, procedimentos_obrigatorios, arq_config, foraDoCatalogo>>

\* sistema.definir_requer_laudo(procedimento, requer)
DefinirRequerLaudo(procedimento, requer) ==
    /\ Pronto
    /\ LET r == definir_requer_laudo(procedimentos_db, procedimento, requer)
       IN  /\ procedimentos_db' = r.db
           /\ arq_procedimentos' =
                 IF r.retorno THEN salvar_procedimentos(r.db) ELSE arq_procedimentos
           /\ chamada' = [op |-> "definir_requer_laudo", arg1 |-> procedimento,
                          arg2 |-> requer, retorno |-> r.retorno]
    /\ passos' = passos + 1
    /\ UNCHANGED <<fase, procedimentos_obrigatorios, arq_config, foraDoCatalogo>>

\* sistema.alternar_obrigatorio(procedimento)
AlternarObrigatorioDb(procedimento) ==
    /\ Pronto
    /\ procedimentos_obrigatorios' =
          alternar_obrigatorio(procedimentos_obrigatorios, procedimento)
    /\ arq_config' = salvar_config(procedimentos_obrigatorios')
    /\ chamada' = [op |-> "alternar_obrigatorio", arg1 |-> procedimento, retorno |-> TRUE]
    /\ passos' = passos + 1
    /\ UNCHANGED <<fase, procedimentos_db, arq_procedimentos, foraDoCatalogo>>

\* sistema.editar_procedimento_db(procedimento_antigo, procedimento_novo)
EditarProcedimentoDb(antigo, novo) ==
    /\ Pronto
    /\ LET r == editar_procedimento_db(procedimentos_db, procedimentos_obrigatorios,
                                       antigo, novo)
       IN  /\ procedimentos_db' = r.db
           /\ procedimentos_obrigatorios' = r.obrig
           /\ arq_procedimentos' =
                 IF r.retorno THEN salvar_procedimentos(r.db) ELSE arq_procedimentos
           /\ arq_config' = IF r.retorno THEN salvar_config(r.obrig) ELSE arq_config
           /\ chamada' = [op |-> "editar_procedimento_db", arg1 |-> antigo,
                          arg2 |-> novo, retorno |-> r.retorno]
    /\ passos' = passos + 1
    /\ UNCHANGED <<fase, foraDoCatalogo>>

NextCatalogo ==
    \/ Construir
    \/ \E p \in NomesCatalogo \cup {""} : AdicionarProcedimentoDb(p)
    \/ \E p \in NomesCatalogo : RemoverProcedimentoDb(p)
    \/ \E p \in NomesCatalogo, requer \in BOOLEAN : DefinirRequerLaudo(p, requer)
    \/ \E p \in NomesCatalogo : AlternarObrigatorioDb(p)
    \/ \E antigo \in NomesCatalogo, novo \in NomesCatalogo \cup {""} :
          EditarProcedimentoDb(antigo, novo)

SpecCatalogo == InitCatalogo /\ [][NextCatalogo]_vars

\* C3: once the catalog object is constructed, every name of the mandatory list
\* is a key of the catalog, whatever catalog operations have been called.
C3_ObrigatoriosNoCatalogo ==
    fase = "pronto" =>
        \A i \in 1..Len(procedimentos_obrigatorios) :
            procedimentos_obrigatorios[i] \in DOMAIN procedimentos_db

\* C4: a rename whose new name is already a key of the catalog (and is not the
\* old name) returns false and changes neither the catalog nor the mandatory list.
C4_RenomearParaExistenteFalha ==
    [][(/\ chamada'.op = "editar_procedimento_db"
        /\ passos' = passos + 1
        /\ chamada'.arg2 \in DOMAIN procedimentos_db
        /\ chamada'.arg2 # chamada'.arg1)
       => (/\ chamada'.retorno = FALSE
           /\ procedimentos_db' = procedimentos_db
           /\ procedimentos_obrigatorios' = procedimentos_obrigatorios)]_vars

----------------------------------------------------------------------------
(* Character strings: the person name and the CPF                           *)

Digitos == <<"0", "1", "2", "3", "4", "5", "6", "7", "8", "9">>

\* char.isdigit()
isdigit(c) == c \in Range(Digitos)

\* int(c) of a digit character
int(c) == (CHOOSE i \in 1..Len(Digitos) : Digitos[i] = c) - 1

\* str.strip(): without the leading and the trailing blanks
RECURSIVE lstrip(_)
lstrip(s) == IF s # <<>> /\ Head(s) = " " THEN lstrip(Tail(s)) ELSE s

RECURSIVE rstrip(_)
rstrip(s) == IF s # <<>> /\ s[Len(s)] = " " THEN rstrip(SubSeq(s, 1, Len(s) - 1)) ELSE s

strip(s) == rstrip(lstrip(s))

\* len(s.split()): the number of maximal runs of non-blank characters
palavras(s) ==
    Cardinality({i \in 1..Len(s) : s[i] # " " /\ (i = 1 \/ s[i - 1] = " ")})

\* str.replace(' ', '_')
replace_espacos(s) == [i \in 1..Len(s) |-> IF s[i] = " " THEN "_" ELSE s[i]]

\* re.sub(r'[^0-9]', '', cpf)
so_digitos(s) == SelectSeq(s, isdigit)

\* str.lower() on the exam types the application handles
lower(t) ==
    CASE t = "Admissional" -> "admissional"
      [] t = "Periódico" -> "periódico"
      [] t = "Retorno ao Trabalho" -> "retorno ao trabalho"
      [] t = "Demissional" -> "demissional"
      [] t = "DEMISSIONAL" -> "demissional"
      [] OTHER -> t

----------------------------------------------------------------------------
(* ValidadorAvancado and the CPF routines of SistemaClinico                 *)

\* a variant of validar_nome_completo without the test for digits
validar_nome_sem_digitos(nome) ==
    IF nome = <<>> \/ Len(strip(nome)) < 3
    THEN [ok |-> FALSE, mensagem |-> "Nome deve ter pelo menos 3 caracteres"]
    ELSE IF palavras(strip(nome)) < 2
    THEN [ok |-> FALSE, mensagem |-> "Digite o nome completo (nome e sobrenome)"]
    ELSE [ok |-> TRUE, mensagem |-> ""]

\* validar_nome_completo; the answer is (ok, mensagem)
validar_nome_completo(nome) ==
    IF nome = <<>> \/ Len(strip(nome)) < 3
    THEN [ok |-> FALSE, mensagem |-> "Nome deve ter pelo menos 3 caracteres"]
    ELSE IF palavras(strip(nome)) < 2
    THEN [ok |-> FALSE, mensagem |-> "Digite o nome completo (nome e sobrenome)"]
    ELSE IF \E i \in 1..Len(nome) : isdigit(nome[i])
    THEN [ok |-> FALSE, mensagem |-> "Nome não pode conter números"]
    ELSE [ok |-> TRUE, mensagem |-> ""]

\* a variant of validar_procedimentos_minimos without the test for an empty list
validar_minimos_sem_vazio(procedimentos, obrigatorios) ==
    LET faltantes == SelectSeq(obrigatorios, LAMBDA p : ~Contem(procedimentos, p))
    IN  IF faltantes # <<>>
        THEN [ok |-> FALSE, mensagem |-> "Procedimentos obrigatórios faltantes",
              nomes |-> faltantes]
        ELSE [ok |-> TRUE, mensagem |-> "", nomes |-> <<>>]

\* validar_procedimentos_minimos; faltantes are the names the message lists
validar_procedimentos_minimos(procedimentos, obrigatorios) ==
    LET faltantes == SelectSeq(obrigatorios, LAMBDA p : ~Contem(procedimentos, p))
    IN  IF procedimentos = <<>>
        THEN [ok |-> FALSE, mensagem |-> "Selecione pelo menos um procedimento",
              nomes |-> <<>>]
        ELSE IF faltantes # <<>>
        THEN [ok |-> FALSE, mensagem |-> "Procedimentos obrigatórios faltantes",
              nomes |-> faltantes]
        ELSE [ok |-> TRUE, mensagem |-> "", nomes |-> <<>>]

\* a variant of validar_compatibilidade_tipo_procedimentos that does not lower
\* the exam type
compatibilidade_sem_lower(tipo, procedimentos) ==
    LET proibidos == {"Raio-X Tórax", "Espirometria"}
        encontrados == SelectSeq(procedimentos, LAMBDA p : p \in proibidos)
    IN  IF tipo = "demissional" /\ encontrados # <<>>
        THEN [ok |-> FALSE, mensagem |-> "não são necessários para exame demissional",
              nomes |-> encontrados]
        ELSE [ok |-> TRUE, mensagem |-> "", nomes |-> <<>>]

\* validar_compatibilidade_tipo_procedimentos
validar_compatibilidade_tipo_procedimentos(tipo, procedimentos) ==
    LET proibidos == {"Raio-X Tórax", "Espirometria"}
        encontrados == SelectSeq(procedimentos, LAMBDA p : p \in proibidos)
    IN  IF lower(tipo) = "demissional" /\ encontrados # <<>>
        THEN [ok |-> FALSE, mensagem |-> "não são necessários para exame demissional",
              nomes |-> encontrados]
        ELSE [ok |-> TRUE, mensagem |-> "", nomes |-> <<>>]

\* sum(int(cpf[i]) * (peso - i) for i in range(n)), with 0-based i
RECURSIVE soma_ponderada(_, _, _)
soma_ponderada(cpf, peso, n) ==
    IF n = 0 THEN 0
    ELSE int(cpf[n]) * (peso - (n - 1)) + soma_ponderada(cpf, peso, n - 1)

\* a variant of the check digit that keeps 10 and 11
digito_sem_ajuste(soma) == 11 - (soma % 11)

\* resto = 11 - (soma % 11); 10 and 11 become 0
digito_verificador(soma) ==
    LET resto == 11 - (soma % 11) IN IF resto = 10 \/ resto = 11 THEN 0 ELSE resto

\* validar_cpf
validar_cpf(texto) ==
    LET cpf == so_digitos(texto)
    IN  IF Len(cpf) # 11 \/ (\A i \in 1..11 : cpf[i] = cpf[1]) THEN FALSE
        ELSE IF digito_verificador(soma_ponderada(cpf, 10, 9)) # int(cpf[10]) THEN FALSE
        ELSE IF digito_verificador(soma_ponderada(cpf, 11, 10)) # int(cpf[11]) THEN FALSE
        ELSE TRUE

\* a variant of formatar_cpf that puts a dot where the hyphen belongs
formatar_sem_hifen(texto) ==
    LET cpf == so_digitos(texto)
        n == Len(cpf)
    IN  IF n <= 3 THEN cpf
        ELSE IF n <= 6 THEN SubSeq(cpf, 1, 3) \o <<".">> \o SubSeq(cpf, 4, n)
        ELSE IF n <= 9
        THEN SubSeq(cpf, 1, 3) \o <<".">> \o SubSeq(cpf, 4, 6) \o <<".">> \o SubSeq(cpf, 7, n)
        ELSE SubSeq(cpf, 1, 3) \o <<".">> \o SubSeq(cpf, 4, 6) \o <<".">>
             \o SubSeq(cpf, 7, 9) \o <<".">> \o SubSeq(cpf, 10, IF n <= 11 THEN n ELSE 11)

\* formatar_cpf
formatar_cpf(texto) ==
    LET cpf == so_digitos(texto)
        n == Len(cpf)
    IN  IF n <= 3 THEN cpf
        ELSE IF n <= 6 THEN SubSeq(cpf, 1, 3) \o <<".">> \o SubSeq(cpf, 4, n)
        ELSE IF n <= 9
        THEN SubSeq(cpf, 1, 3) \o <<".">> \o SubSeq(cpf, 4, 6) \o <<".">> \o SubSeq(cpf, 7, n)
        ELSE IF n <= 11
        THEN SubSeq(cpf, 1, 3) \o <<".">> \o SubSeq(cpf, 4, 6) \o <<".">>
             \o SubSeq(cpf, 7, 9) \o <<"-">> \o SubSeq(cpf, 10, n)
        ELSE SubSeq(cpf, 1, 3) \o <<".">> \o SubSeq(cpf, 4, 6) \o <<".">>
             \o SubSeq(cpf, 7, 9) \o <<"-">> \o SubSeq(cpf, 10, 11)

----------------------------------------------------------------------------
(* GerenciadorHistorico: the record store                                   *)

\* carregar_historico: a missing or unreadable file gives the empty list
carregar_historico(arq) == IF arq.estado = "json" THEN arq.registros ELSE <<>>

\* salvar_historico
salvar_historico(hist) == [estado |-> "json", registros |-> hist]

\* a variant of novo_registro whose id is len(historico), without the + 1
registro_sem_incremento(hist, nome, cpf, tipo, procedimentos, arquivo_pdf, instante) ==
    [id |-> Len(hist),
     timestamp |-> instante,
     data_formatada |-> instante,
     nome |-> strip(nome),
     cpf |-> cpf,
     tipo_exame |-> tipo,
     procedimentos |-> procedimentos,
     arquivo_pdf |-> arquivo_pdf,
     editado |-> FALSE,
     historico_edicoes |-> <<>>]

\* the record adicionar_checklist builds; instante is datetime.now(), which gives
\* both 'timestamp' and 'data_formatada'
novo_registro(hist, nome, cpf, tipo, procedimentos, arquivo_pdf, instante) ==
    [id |-> Len(hist) + 1,
     timestamp |-> instante,
     data_formatada |-> instante,
     nome |-> strip(nome),
     cpf |-> cpf,
     tipo_exame |-> tipo,
     procedimentos |-> procedimentos,
     arquivo_pdf |-> arquivo_pdf,
     editado |-> FALSE,
     historico_edicoes |-> <<>>]

\* a variant of adicionar_checklist that also writes the new data over the last record
adicionar_sobre_o_ultimo(hist, nome, cpf, tipo, procedimentos, arquivo_pdf, instante) ==
    LET registro == novo_registro(hist, nome, cpf, tipo, procedimentos, arquivo_pdf, instante)
    IN  [historico |-> IF hist = <<>> THEN <<registro>>
                       ELSE Append(SubSeq(hist, 1, Len(hist) - 1),
                                   [registro EXCEPT !.id = Len(hist)]) \o <<registro>>,
         id |-> registro.id]

\* adicionar_checklist: the store with the record appended, and the id returned
adicionar_checklist(hist, nome, cpf, tipo, procedimentos, arquivo_pdf, instante) ==
    LET registro == novo_registro(hist, nome, cpf, tipo, procedimentos, arquivo_pdf, instante)
    IN  [historico |-> Append(hist, registro), id |-> registro.id]

\* the filename of gerar_pdf_checklist: checklist_<nome>_<YYYYMMDD_HHMMSS>.pdf
filename(nome, instante) == [nome |-> replace_espacos(nome), instante |-> instante]

----------------------------------------------------------------------------
(* GerenciadorInterface: the handlers of the form                           *)

\* a variant of _validar_dados_avancado that skips the CPF validation
validar_dados_sem_cpf(nome_f, cpf_f, tipo, selecionados, obrigatorios) ==
    LET v_nome == validar_nome_completo(strip(nome_f))
        v_proc == validar_procedimentos_minimos(selecionados, obrigatorios)
        v_compat == validar_compatibilidade_tipo_procedimentos(tipo, selecionados)
    IN  IF ~v_nome.ok THEN [ok |-> FALSE, mensagem |-> v_nome.mensagem]
        ELSE IF ~v_proc.ok THEN [ok |-> FALSE, mensagem |-> v_proc.mensagem]
        ELSE IF ~v_compat.ok THEN [ok |-> FALSE, mensagem |-> v_compat.mensagem]
        ELSE [ok |-> TRUE, mensagem |-> ""]

\* _validar_dados_avancado: the four validations in order; the answer carries
\* the message shown
validar_dados_avancado(nome_f, cpf_f, tipo, selecionados, obrigatorios) ==
    LET v_nome == validar_nome_completo(strip(nome_f))
        v_proc == validar_procedimentos_minimos(selecionados, obrigatorios)
        v_compat == validar_compatibilidade_tipo_procedimentos(tipo, selecionados)
    IN  IF ~v_nome.ok THEN [ok |-> FALSE, mensagem |-> v_nome.mensagem]
        ELSE IF ~validar_cpf(so_digitos(strip(cpf_f)))
        THEN [ok |-> FALSE, mensagem |-> "CPF inválido! Verifique os dados."]
        ELSE IF ~v_proc.ok THEN [ok |-> FALSE, mensagem |-> v_proc.mensagem]
        ELSE IF ~v_compat.ok THEN [ok |-> FALSE, mensagem |-> v_compat.mensagem]
        ELSE [ok |-> TRUE, mensagem |-> ""]

\* a variant of _garantir_procedimentos_obrigatorios without the final ordering
garantir_sem_ordenar(selecionados, obrigatorios) ==
    acrescentar_faltantes(selecionados, obrigatorios)

\* _garantir_procedimentos_obrigatorios: append the missing mandatory names, order
garantir_procedimentos_obrigatorios(selecionados, obrigatorios) ==
    ordenar_procedimentos(acrescentar_faltantes(selecionados, obrigatorios))

----------------------------------------------------------------------------
(* Specification of the application: the process starts on the files found  *)
(* on disk, then the user works the form, the catalog and the history       *)

\* bound on the handler calls that change the lists, the catalog or the store
MaxPassos == 3

\* bound on the clock, in seconds since the start of the process
MaxRelogio == 1

\* the procedure names the user clicks on or types
NomesUI == {"Triagem", "Espirometria", "Ergometria"}

\* what the user types in the name field: a full name
AnaLuz == <<"A", "n", "a", " ", "L", "u", "z">>
NomesDigitados == {AnaLuz}

\* what the user types in the CPF field: a number whose check digits are right
CpfValido == <<"1", "2", "3", "4", "5", "6", "7", "8", "9", "0", "9">>
CpfsDigitados == {CpfValido}

\* the cards of TipoExameModerno the user clicks on
TiposExame == {"Admissional", "Demissional"}

\* a store file written by an earlier session: one record, generated the
\* second before this process started
RegistroAnterior ==
    novo_registro(<<>>, AnaLuz, formatar_cpf(CpfValido), "Admissional",
                  <<"Triagem", "Exame Clínico", "Faturamento">>, filename(AnaLuz, -1), -1)

ArquivosHistoricoIniciais == {Ausente, Malformado, salvar_historico(<<RegistroAnterior>>)}

\* no call of gerar_pdf_checklist yet
NadaRenderizado ==
    [origem |-> "nenhum", procedimentos |-> <<>>, arquivo |-> filename(<<>>, 0)]

\* the outcome recorded for the handlers other than generate and reopen
Outra == [op |-> "outra", resultado |-> "", id |-> 0]

Init ==
    /\ fase = "inicio"
    /\ passos = 0
    /\ chamada = [op |-> "nenhuma", resultado |-> "", id |-> 0]
    /\ procedimentos_db = <<>>
    /\ procedimentos_obrigatorios = <<>>
    /\ arq_procedimentos \in
          {Ausente, Malformado,
           salvar_procedimentos([n \in Range(procedimentos_iniciais) |-> SemLaudo])}
    /\ arq_config \in {Ausente, Malformado, salvar_config(obrigatorios_padrao)}
    /\ historico = <<>>
    /\ arq_historico \in ArquivosHistoricoIniciais
    /\ procedimentos_selecionados = <<>>
    /\ nome_field = <<>>
    /\ cpf_field = <<>>
    /\ tipo_exame = "Admissional"
    /\ renderizado = NadaRenderizado
    /\ agora = 0
    /\ entrada = Nenhum
    /\ SemLayout

foraDaAplicacao == <<varsLayout, entrada>>

\* GerenciadorInterface.__init__: SistemaClinico(), GerenciadorHistorico(), then
\* _inicializar_componentes selects the mandatory procedures and orders them.
\* An exception of SistemaClinico() ends the process.
Iniciar ==
    /\ fase = "inicio"
    /\ LET r == SistemaClinico(arq_procedimentos, arq_config)
       IN  /\ arq_procedimentos' = r.arq_procedimentos
           /\ arq_config' = r.arq_config
           /\ procedimentos_db' = r.db
           /\ procedimentos_obrigatorios' = r.obrig
           /\ IF r.ok
              THEN /\ fase' = "rodando"
                   /\ historico' = carregar_historico(arq_historico)
                   /\ procedimentos_selecionados' = ordenar_procedimentos(r.obrig)
                   /\ chamada' = [op |-> "iniciar", resultado |-> "ok", id |-> 0]
              ELSE /\ fase' = "erro"
                   /\ chamada' = [op |-> "iniciar", resultado |-> "excecao", id |-> 0]
                   /\ UNCHANGED <<historico, procedimentos_selecionados>>
    /\ UNCHANGED <<passos, arq_historico, varsFormulario, varsPdf, foraDaAplicacao>>

Rodando == fase = "rodando"

\* a handler that changes a list, the catalog or the store may still be called
Contado == Rodando /\ passos < MaxPassos /\ passos' = passos + 1

\* the user types in nome_field
DigitarNome(nome) ==
    /\ Rodando
    /\ nome # nome_field
    /\ nome_field' = nome
    /\ chamada' = Outra
    /\ UNCHANGED <<fase, passos, varsCatalogo, varsHistorico, procedimentos_selecionados,
                   cpf_field, tipo_exame, varsPdf, foraDaAplicacao>>

\* _aplicar_mascara_cpf: the field holds the formatted text
DigitarCpf(cpf) ==
    /\ Rodando
    /\ formatar_cpf(cpf) # cpf_field
    /\ cpf_field' = formatar_cpf(cpf)
    /\ chamada' = Outra
    /\ UNCHANGED <<fase, passos, varsCatalogo, varsHistorico, procedimentos_selecionados,
                   nome_field, tipo_exame, varsPdf, foraDaAplicacao>>

\* TipoExameModerno._selecionar_tipo
SelecionarTipo(tipo) ==
    /\ Rodando
    /\ tipo # tipo_exame
    /\ tipo_exame' = tipo
    /\ chamada' = Outra
    /\ UNCHANGED <<fase, passos, varsCatalogo, varsHistorico, procedimentos_selecionados,
                   nome_field, cpf_field, varsPdf, foraDaAplicacao>>

\* _adicionar_procedimento, on a card of the catalog list
AdicionarProcedimento(procedimento) ==
    /\ Contado
    /\ procedimento \in DOMAIN procedimentos_db
    /\ ~Contem(procedimentos_selecionados, procedimento)
    /\ procedimentos_selecionados' = Append(procedimentos_selecionados, procedimento)
    /\ chamada' = Outra
    /\ UNCHANGED <<fase, varsCatalogo, varsHistorico, varsFormulario, varsPdf,
                   foraDaAplicacao>>

\* _remover_procedimento, on a row of the selected list
RemoverProcedimento(procedimento) ==
    /\ Contado
    /\ Contem(procedimentos_selecionados, procedimento)
    /\ procedimentos_selecionados' = remove(procedimentos_selecionados, procedimento)
    /\ chamada' = Outra
    /\ UNCHANGED <<fase, varsCatalogo, varsHistorico, varsFormulario, varsPdf,
                   foraDaAplicacao>>

\* _alternar_obrigatorio: a name that became mandatory is selected at once
AlternarObrigatorio(procedimento) ==
    /\ Contado
    /\ procedimento \in DOMAIN procedimentos_db
    /\ procedimentos_obrigatorios' =
          alternar_obrigatorio(procedimentos_obrigatorios, procedimento)
    /\ arq_config' = salvar_config(procedimentos_obrigatorios')
    /\ procedimentos_selecionados' =
          IF Contem(procedimentos_obrigatorios', procedimento)
             /\ ~Contem(procedimentos_selecionados, procedimento)
          THEN Append(procedimentos_selecionados, procedimento)
          ELSE procedimentos_selecionados
    /\ chamada' = Outra
    /\ UNCHANGED <<fase, procedimentos_db, arq_procedimentos, varsHistorico,
                   varsFormulario, varsPdf, foraDaAplicacao>>

\* _adicionar_novo_procedimento and the answer to its dialog (confirmar_adicao)
AdicionarNovoProcedimento(procedimento, requer_laudo) ==
    /\ Contado
    /\ procedimento # ""
    /\ procedimento \notin DOMAIN procedimentos_db
    /\ LET r == adicionar_procedimento(procedimentos_db, procedimento)
           d == definir_requer_laudo(r.db, procedimento, requer_laudo)
       IN  /\ procedimentos_db' = d.db
           /\ arq_procedimentos' = salvar_procedimentos(d.db)
    /\ chamada' = Outra
    /\ UNCHANGED <<fase, procedimentos_obrigatorios, arq_config, varsHistorico,
                   procedimentos_selecionados, varsFormulario, varsPdf, foraDaAplicacao>>

\* _editar_procedimento and the save button of its dialog (salvar_edicao)
EditarProcedimento(procedimento_antigo, novo_nome, requer_laudo_atual) ==
    /\ Contado
    /\ procedimento_antigo \in DOMAIN procedimentos_db
    /\ novo_nome # ""
    /\ LET r == editar_procedimento_db(procedimentos_db, procedimentos_obrigatorios,
                                       procedimento_antigo, novo_nome)
           d == definir_requer_laudo(r.db, novo_nome, requer_laudo_atual)
       IN  /\ r.retorno
           /\ procedimentos_db' = d.db
           /\ procedimentos_obrigatorios' = r.obrig
           /\ arq_procedimentos' = salvar_procedimentos(d.db)
           /\ arq_config' = salvar_config(r.obrig)
    /\ procedimentos_selecionados' =
          IF Contem(procedimentos_selecionados, procedimento_antigo)
          THEN [procedimentos_selecionados EXCEPT
                   ![index(procedimentos_selecionados, procedimento_antigo)] = novo_nome]
          ELSE procedimentos_selecionados
    /\ chamada' = Outra
    /\ UNCHANGED <<fase, varsHistorico, varsFormulario, varsPdf, foraDaAplicacao>>

\* _excluir_procedimento and the confirmation of its dialog (confirmar_exclusao)
ExcluirProcedimento(procedimento) ==
    /\ Contado
    /\ procedimento \in DOMAIN procedimentos_db
    /\ LET r == remover_procedimento_db(procedimentos_db, procedimento)
       IN  /\ procedimentos_db' = r.db
           /\ arq_procedimentos' = salvar_procedimentos(r.db)
    /\ procedimentos_selecionados' =
          IF Contem(procedimentos_selecionados, procedimento)
          THEN remove(procedimentos_selecionados, procedimento)
          ELSE procedimentos_selecionados
    /\ chamada' = Outra
    /\ UNCHANGED <<fase, procedimentos_obrigatorios, arq_config, varsHistorico,
                   varsFormulario, varsPdf, foraDaAplicacao>>

\* _adicionar_obrigatorios: when a mandatory name was missing, append and order
AdicionarObrigatorios ==
    /\ Contado
    /\ \E i \in 1..Len(procedimentos_obrigatorios) :
          ~Contem(procedimentos_selecionados, procedimentos_obrigatorios[i])
    /\ procedimentos_selecionados' =
          ordenar_procedimentos(
              acrescentar_faltantes(procedimentos_selecionados, procedimentos_obrigatorios))
    /\ chamada' = Outra
    /\ UNCHANGED <<fase, varsCatalogo, varsHistorico, varsFormulario, varsPdf,
                   foraDaAplicacao>>

\* _limpar_procedimentos
LimparProcedimentos ==
    /\ Contado
    /\ procedimentos_selecionados # <<>>
    /\ procedimentos_selecionados' = <<>>
    /\ chamada' = Outra
    /\ UNCHANGED <<fase, varsCatalogo, varsHistorico, varsFormulario, varsPdf,
                   foraDaAplicacao>>

\* _limpar_tudo: empty fields, default exam type, the mandatory list as selection
LimparTudo ==
    /\ Contado
    /\ nome_field' = <<>>
    /\ cpf_field' = <<>>
    /\ tipo_exame' = "Admissional"
    /\ procedimentos_selecionados' = procedimentos_obrigatorios
    /\ chamada' = Outra
    /\ UNCHANGED <<fase, varsCatalogo, varsHistorico, varsPdf, foraDaAplicacao>>

\* InterfaceHistorico.carregar_dados_funcionario on record k, which calls
\* GerenciadorInterface.carregar_dados_do_historico
CarregarDadosFuncionario(k) ==
    /\ Contado
    /\ k \in 1..Len(historico)
    /\ nome_field' = historico[k].nome
    /\ cpf_field' = historico[k].cpf
    /\ tipo_exame' = historico[k].tipo_exame
    /\ procedimentos_selecionados' = historico[k].procedimentos
    /\ chamada' = Outra
    /\ UNCHANGED <<fase, varsCatalogo, varsHistorico, varsPdf, foraDaAplicacao>>

\* datetime.now() read after instant t: the same second or a later one
Instantes(t) == {i \in t..(t + 1) : i <= MaxRelogio}

\* _gerar_checklist.  instante_pdf is the clock read by gerar_pdf_checklist for
\* the filename, instante_registro the one read by adicionar_checklist, and
\* falha_pdf tells whether gerar_pdf_checklist raises (the file cannot be
\* written).  A failed validation only shows a message.
GerarChecklist(instante_pdf, instante_registro, falha_pdf) ==
    /\ Rodando
    /\ LET v == validar_dados_avancado(nome_field, cpf_field, tipo_exame,
                                       procedimentos_selecionados,
                                       procedimentos_obrigatorios)
           nome == strip(nome_field)
           cpf == strip(cpf_field)
           garantidos == garantir_procedimentos_obrigatorios(
                             procedimentos_selecionados, procedimentos_obrigatorios)
           arquivo == filename(nome, instante_pdf)
           r == adicionar_checklist(historico, nome, cpf, tipo_exame, garantidos,
                                    arquivo, instante_registro)
       IN  IF ~v.ok
           THEN /\ instante_pdf = agora /\ instante_registro = agora /\ ~falha_pdf
                /\ chamada' = [op |-> "gerar", resultado |-> "invalido", id |-> 0]
                /\ UNCHANGED <<passos, procedimentos_selecionados, varsHistorico, varsPdf>>
           ELSE /\ passos < MaxPassos
                /\ passos' = passos + 1
                /\ procedimentos_selecionados' = garantidos
                /\ IF garantidos = <<>>
                   THEN /\ instante_pdf = agora /\ instante_registro = agora /\ ~falha_pdf
                        /\ chamada' = [op |-> "gerar", resultado |-> "vazio", id |-> 0]
                        /\ UNCHANGED <<varsHistorico, varsPdf>>
                   ELSE /\ instante_pdf \in Instantes(agora)
                        /\ renderizado' = [origem |-> "gerar", procedimentos |-> garantidos,
                                           arquivo |-> arquivo]
                        /\ IF falha_pdf
                           THEN /\ instante_registro = instante_pdf
                                /\ agora' = instante_pdf
                                /\ chamada' = [op |-> "gerar", resultado |-> "erro_pdf",
                                               id |-> 0]
                                /\ UNCHANGED varsHistorico
                           ELSE /\ instante_registro \in Instantes(instante_pdf)
                                /\ agora' = instante_registro
                                /\ historico' = r.historico
                                /\ arq_historico' = salvar_historico(r.historico)
                                /\ chamada' = [op |-> "gerar", resultado |-> "ok",
                                               id |-> r.id]
    /\ UNCHANGED <<fase, varsCatalogo, varsFormulario, foraDaAplicacao>>

\* InterfaceHistorico.abrir_pdf_historico on record k.  existe is
\* os.path.exists(registro['arquivo_pdf']); when the file is gone a second
\* SistemaClinico is constructed from the files and renders the record's list.
\* Every exception is caught and printed.
AbrirPdfHistorico(k, existe, instante_pdf, falha_pdf) ==
    /\ Contado
    /\ k \in 1..Len(historico)
    /\ IF existe
       THEN /\ instante_pdf = agora /\ ~falha_pdf
            /\ chamada' = [op |-> "abrir", resultado |-> "aberto", id |-> historico[k].id]
            /\ UNCHANGED <<arq_procedimentos, arq_config, varsPdf>>
       ELSE LET sistema_temp == SistemaClinico(arq_procedimentos, arq_config)
            IN  /\ arq_procedimentos' = sistema_temp.arq_procedimentos
                /\ arq_config' = sistema_temp.arq_config
                /\ IF ~sistema_temp.ok
                   THEN /\ instante_pdf = agora /\ ~falha_pdf
                        /\ chamada' = [op |-> "abrir", resultado |-> "excecao",
                                       id |-> historico[k].id]
                        /\ UNCHANGED varsPdf
                   ELSE /\ instante_pdf \in Instantes(agora)
                        /\ agora' = instante_pdf
                        /\ renderizado' =
                              [origem |-> "historico",
                               procedimentos |-> historico[k].procedimentos,
                               arquivo |-> filename(historico[k].nome, instante_pdf)]
                        /\ chamada' = [op |-> "abrir",
                                       resultado |-> IF falha_pdf THEN "erro_pdf" ELSE "ok",
                                       id |-> historico[k].id]
    /\ UNCHANGED <<fase, procedimentos_db, procedimentos_obrigatorios, varsHistorico,
                   procedimentos_selecionados, varsFormulario, foraDaAplicacao>>

Next ==
    \/ Iniciar
    \/ \E nome \in NomesDigitados : DigitarNome(nome)
    \/ \E cpf \in CpfsDigitados : DigitarCpf(cpf)
    \/ \E tipo \in TiposExame : SelecionarTipo(tipo)
    \/ \E p \in NomesUI : AdicionarProcedimento(p)
    \/ \E p \in Range(procedimentos_selecionados) : RemoverProcedimento(p)
    \/ \E p \in NomesUI : AlternarObrigatorio(p)
    \/ \E p \in NomesUI, requer \in BOOLEAN : AdicionarNovoProcedimento(p, requer)
    \/ \E antigo \in NomesUI, novo \in NomesUI, requer \in BOOLEAN :
          EditarProcedimento(antigo, novo, requer)
    \/ \E p \in NomesUI : ExcluirProcedimento(p)
    \/ AdicionarObrigatorios
    \/ LimparProcedimentos
    \/ LimparTudo
    \/ \E k \in 1..Len(historico) : CarregarDadosFuncionario(k)
    \/ \E t1, t2 \in 0..MaxRelogio, falha \in BOOLEAN : GerarChecklist(t1, t2, falha)
    \/ \E k \in 1..Len(historico), existe, falha \in BOOLEAN, t \in 0..MaxRelogio :
          AbrirPdfHistorico(k, existe, t, falha)

Spec == Init /\ [][Next]_vars

----------------------------------------------------------------------------
(* Properties of the application                                            *)

\* every name of the list obrigatorios is in the list procedimentos
ContemTodos(procedimentos, obrigatorios) ==
    \A i \in 1..Len(obrigatorios) : Contem(procedimentos, obrigatorios[i])

\* this step called gerar_pdf_checklist and the call returned a file
GerouDocumento ==
    /\ passos' = passos + 1
    /\ chamada'.op \in {"gerar", "abrir"}
    /\ chamada'.resultado = "ok"

\* C5: whatever the user did before, every document generated (by the generate
\* action or by reopening a history entry) and every record appended to the
\* store contains every name that is in the mandatory list at that moment.
C5_DocumentoContemObrigatorios ==
    [][/\ GerouDocumento =>
             ContemTodos(renderizado'.procedimentos, procedimentos_obrigatorios')
       /\ (Rodando /\ Len(historico') > Len(historico)) =>
             ContemTodos(historico'[Len(historico')].procedimentos,
                         procedimentos_obrigatorios')]_vars

\* C6: the record at position k of the store has id k, so ids are 1, 2, 3, ...
\* in insertion order and pairwise distinct, and the id an append returns is
\* the id of the record it added, the last one.
C6_IdsSequenciais ==
    /\ \A k \in 1..Len(historico) : historico[k].id = k
    /\ (chamada.op = "gerar" /\ chamada.resultado = "ok") =>
          /\ historico # <<>>
          /\ chamada.id = historico[Len(historico)].id

\* three records: the one of an earlier session and two appended in this one
C6_Witness ==
    /\ Len(historico) = 3
    /\ chamada.op = "gerar"
    /\ chamada.resultado = "ok"
    /\ chamada.id = 3

\* 'Triagem' at position 0 if present, 'Faturamento' at the last position if present
Ordenada(lista) ==
    /\ Contem(lista, "Triagem") => lista[1] = "Triagem"
    /\ Contem(lista, "Faturamento") => lista[Len(lista)] = "Faturamento"

\* C8: every list passed to gerar_pdf_checklist, by the generate action or by
\* reopening a history entry whose file is missing, has 'Triagem' first if it
\* contains it and 'Faturamento' last if it contains it.
C8_ListaRenderizadaOrdenada ==
    renderizado.origem # "nenhum" => Ordenada(renderizado.procedimentos)

\* a record of four procedures generated in this session and then reopened
C8_Witness ==
    /\ renderizado.origem = "historico"
    /\ chamada.op = "abrir"
    /\ chamada.resultado = "ok"
    /\ Len(renderizado.procedimentos) = 4
    /\ Contem(renderizado.procedimentos, "Triagem")
    /\ Contem(renderizado.procedimentos, "Faturamento")
    /\ Contem(renderizado.procedimentos, "Espirometria")

\* the four validations, each evaluated on the form as it is
QuatroValidacoes ==
    /\ validar_nome_completo(strip(nome_field)).ok
    /\ validar_cpf(so_digitos(strip(cpf_field)))
    /\ validar_procedimentos_minimos(procedimentos_selecionados,
                                     procedimentos_obrigatorios).ok
    /\ validar_compatibilidade_tipo_procedimentos(tipo_exame,
                                                  procedimentos_selecionados).ok

\* C9: while the application runs the store changes only in a generate action
\* whose four validations passed and whose render returned a path; the change
\* is one appended record whose arquivo_pdf is that path and whose list is the
\* rendered one; a generate action whose validation fails or whose render
\* raises leaves the store and its file unchanged.
C9_ValidarRenderizarGravar ==
    [][/\ (Rodando /\ varsHistorico' # varsHistorico) =>
             /\ chamada'.op = "gerar" /\ chamada'.resultado = "ok"
             /\ QuatroValidacoes
             /\ renderizado'.origem = "gerar"
             /\ Len(historico') = Len(historico) + 1
             /\ SubSeq(historico', 1, Len(historico)) = historico
             /\ historico'[Len(historico')].arquivo_pdf = renderizado'.arquivo
             /\ historico'[Len(historico')].procedimentos = renderizado'.procedimentos
       /\ (chamada'.op = "gerar" /\ (~QuatroValidacoes \/ chamada'.resultado # "ok")) =>
             UNCHANGED varsHistorico]_vars

\* a generate action that passed: the last record names the rendered file
C9_Witness ==
    /\ chamada.op = "gerar"
    /\ chamada.resultado = "ok"
    /\ renderizado.origem = "gerar"
    /\ historico # <<>>
    /\ historico[Len(historico)].arquivo_pdf = renderizado.arquivo
    /\ arq_historico = salvar_historico(historico)

\* C10: starting the application on files that are missing or malformed raises
\* no error and gives the empty store, the default catalog and the default
\* mandatory list.
C10_CargaSemErro ==
    [][fase = "inicio" /\ fase' # "inicio" =>
          /\ fase' = "rodando"
          /\ arq_historico.estado \in {"ausente", "malformado"} => historico' = <<>>
          /\ arq_procedimentos.estado \in {"ausente", "malformado"} =>
                procedimentos_db' = [n \in Range(procedimentos_iniciais) |-> SemLaudo]
          /\ arq_config.estado \in {"ausente", "malformado"} =>
                procedimentos_obrigatorios' = obrigatorios_padrao]_vars

----------------------------------------------------------------------------
(* Specification of the writes: the operations of SistemaClinico and of     *)
(* GerenciadorHistorico on a disk that may refuse a write                   *)

\* what open(..., 'w') followed by json.dump leaves on disk: the new content,
\* the old content when open fails, a truncated text when the dump fails
Escritas == {"ok", "recusada", "truncada"}

gravar(arquivo, conteudo, escrita) ==
    CASE escrita = "ok" -> conteudo
      [] escrita = "recusada" -> arquivo
      [] OTHER -> Malformado

\* what a handler gives back: a boolean, or the id of adicionar_checklist
Booleano(b) == [tipo |-> "bool", valor |-> b]
Inteiro(n) == [tipo |-> "int", valor |-> n]

\* the outcome of one operation: what it returned, whether it raised, and
\* whether it attempted a write that failed
Resultado(op, retorno, tentou, escrita) ==
    [op |-> op, retorno |-> retorno, excecao |-> FALSE,
     falhou |-> (tentou /\ escrita # "ok")]

\* bound on the operations called, and the names they are called with
MaxPassosEscrita == 2
NomesEscrita == {"Triagem", "Espirometria", "Ergometria"}

ProntoEscrita == fase = "pronto" /\ passos < MaxPassosEscrita

InitEscrita ==
    /\ fase = "inicio"
    /\ passos = 0
    /\ chamada = [op |-> "nenhuma"]
    /\ procedimentos_db = <<>>
    /\ procedimentos_obrigatorios = <<>>
    /\ arq_procedimentos \in
          {Ausente, salvar_procedimentos([n \in {"Espirometria", "Triagem"} |->
                                             [requer_laudo |-> (n = "Espirometria")]])}
    /\ arq_config \in {Ausente, salvar_config(<<"Espirometria", "Triagem">>)}
    /\ historico = <<>>
    /\ arq_historico = Ausente
    /\ entrada = Nenhum
    /\ SemSelecao /\ SemFormulario /\ SemPdf /\ SemLayout

foraDaEscrita == <<procedimentos_selecionados, varsFormulario, varsPdf, varsLayout,
                   entrada>>

\* sistema.adicionar_procedimento(procedimento)
AdicionarProcedimentoDisco(procedimento, escrita) ==
    /\ ProntoEscrita
    /\ LET r == adicionar_procedimento(procedimentos_db, procedimento)
       IN  /\ procedimentos_db' = r.db
           /\ arq_procedimentos' =
                 IF r.retorno
                 THEN gravar(arq_procedimentos, salvar_procedimentos(r.db), escrita)
                 ELSE arq_procedimentos
           /\ chamada' = Resultado("adicionar_procedimento", Booleano(r.retorno),
                                   r.retorno, escrita)
    /\ passos' = passos + 1
    /\ UNCHANGED <<fase, procedimentos_obrigatorios, arq_config, varsHistorico,
                   foraDaEscrita>>

\* sistema.remover_procedimento_db(procedimento)
RemoverProcedimentoDisco(procedimento, escrita) ==
    /\ ProntoEscrita
    /\ LET r == remover_procedimento_db(procedimentos_db, procedimento)
       IN  /\ procedimentos_db' = r.db
           /\ arq_procedimentos' =
                 IF r.retorno
                 THEN gravar(arq_procedimentos, salvar_procedimentos(r.db), escrita)
                 ELSE arq_procedimentos
           /\ chamada' = Resultado("remover_procedimento_db", Booleano(r.retorno),
                                   r.retorno, escrita)
    /\ passos' = passos + 1
    /\ UNCHANGED <<fase, procedimentos_obrigatorios, arq_config, varsHistorico,
                   foraDaEscrita>>

\* sistema.definir_requer_laudo(procedimento, requer)
DefinirRequerLaudoDisco(procedimento, requer, escrita) ==
    /\ ProntoEscrita
    /\ LET r == definir_requer_laudo(procedimentos_db, procedimento, requer)
       IN  /\ procedimentos_db' = r.db
           /\ arq_procedimentos' =
                 IF r.retorno
                 THEN gravar(arq_procedimentos, salvar_procedimentos(r.db), escrita)
                 ELSE arq_procedimentos
           /\ chamada' = Resultado("definir_requer_laudo", Booleano(r.retorno),
                                   r.retorno, escrita)
    /\ passos' = passos + 1
    /\ UNCHANGED <<fase, procedimentos_obrigatorios, arq_config, varsHistorico,
                   foraDaEscrita>>

\* sistema.alternar_obrigatorio(procedimento)
AlternarObrigatorioDisco(procedimento, escrita) ==
    /\ ProntoEscrita
    /\ procedimentos_obrigatorios' =
          alternar_obrigatorio(procedimentos_obrigatorios, procedimento)
    /\ arq_config' = gravar(arq_config, salvar_config(procedimentos_obrigatorios'), escrita)
    /\ chamada' = Resultado("alternar_obrigatorio", Booleano(TRUE), TRUE, escrita)
    /\ passos' = passos + 1
    /\ UNCHANGED <<fase, procedimentos_db, arq_procedimentos, varsHistorico,
                   foraDaEscrita>>

\* sistema.editar_procedimento_db(antigo, novo); the two writes fail or succeed
\* independently
EditarProcedimentoDisco(antigo, novo, escrita_p, escrita_c) ==
    /\ ProntoEscrita
    /\ LET r == editar_procedimento_db(procedimentos_db, procedimentos_obrigatorios,
                                       antigo, novo)
       IN  /\ procedimentos_db' = r.db
           /\ procedimentos_obrigatorios' = r.obrig
           /\ arq_procedimentos' =
                 IF r.retorno
                 THEN gravar(arq_procedimentos, salvar_procedimentos(r.db), escrita_p)
                 ELSE arq_procedimentos
           /\ arq_config' =
                 IF r.retorno THEN gravar(arq_config, salvar_config(r.obrig), escrita_c)
                 ELSE arq_config
           /\ chamada' = Resultado("editar_procedimento_db", Booleano(r.retorno), r.retorno,
                                   IF escrita_p = "ok" THEN escrita_c ELSE escrita_p)
    /\ passos' = passos + 1
    /\ UNCHANGED <<fase, varsHistorico, foraDaEscrita>>

\* historico.adicionar_checklist(nome, cpf, tipo_exame, procedimentos, arquivo_pdf)
AdicionarChecklistDisco(nome, procedimentos, escrita) ==
    /\ ProntoEscrita
    /\ LET r == adicionar_checklist(historico, nome, formatar_cpf(CpfValido), "Admissional",
                                    procedimentos, filename(nome, 0), 0)
       IN  /\ historico' = r.historico
           /\ arq_historico' = gravar(arq_historico, salvar_historico(r.historico), escrita)
           /\ chamada' = Resultado("adicionar_checklist", Inteiro(r.id), TRUE, escrita)
    /\ passos' = passos + 1
    /\ UNCHANGED <<fase, varsCatalogo, foraDaEscrita>>

NextEscrita ==
    \/ Construir
    \/ \E p \in NomesEscrita \cup {""}, e \in Escritas : AdicionarProcedimentoDisco(p, e)
    \/ \E p \in NomesEscrita, e \in Escritas : RemoverProcedimentoDisco(p, e)
    \/ \E p \in NomesEscrita, requer \in BOOLEAN, e \in Escritas :
          DefinirRequerLaudoDisco(p, requer, e)
    \/ \E p \in NomesEscrita, e \in Escritas : AlternarObrigatorioDisco(p, e)
    \/ \E antigo \in NomesEscrita, novo \in NomesEscrita \cup {""},
          ep \in Escritas, ec \in Escritas : EditarProcedimentoDisco(antigo, novo, ep, ec)
    \/ \E procs \in {<<"Triagem">>, <<"Triagem", "Faturamento">>}, e \in Escritas :
          AdicionarChecklistDisco(AnaLuz, procs, e)

SpecEscrita == InitEscrita /\ [][NextEscrita]_vars

\* C11: an operation whose write of a persisted file failed raises no
\* exception and gives the boolean False back to its caller.
C11_FalhaDeEscritaRetornaFalso ==
    [][(chamada'.op # "SistemaClinico" /\ passos' = passos + 1 /\ chamada'.falhou) =>
          /\ ~chamada'.excecao
          /\ chamada'.retorno.tipo = "bool"
          /\ chamada'.retorno.valor = FALSE]_vars

----------------------------------------------------------------------------
(* Files and memory                                                         *)

\* C12: writes succeeding, after every user action of the running application
\* the catalog file and the configuration file hold what the application's
\* SistemaClinico holds in memory, and the store file read back gives the
\* record list of the application's GerenciadorHistorico; reopening a history
\* entry whose document is missing is one of the actions.
C12_ArquivosIguaisMemoria ==
    Rodando =>
        /\ arq_procedimentos = salvar_procedimentos(procedimentos_db)
        /\ arq_config = salvar_config(procedimentos_obrigatorios)
        /\ carregar_historico(arq_historico) = historico

----------------------------------------------------------------------------
(* Properties of the catalog operations                                     *)

C14_AlternarObrigatorio ==
    [][(chamada'.op = "alternar_obrigatorio" /\ passos' = passos + 1) =>
          /\ chamada'.retorno = TRUE
          /\ procedimentos_db' = procedimentos_db
          /\ Contem(procedimentos_obrigatorios', chamada'.arg1)
                = ~Contem(procedimentos_obrigatorios, chamada'.arg1)]_vars

\* what both readings of the rename contract share: the failure case, and on
\* success the payload moved to the new key, the other entries and the position
\* in the mandatory list
RenomearComum(antigo, novo) ==
    IF antigo \notin DOMAIN procedimentos_db \/ novo = ""
    THEN /\ chamada'.retorno = FALSE
         /\ procedimentos_db' = procedimentos_db
         /\ procedimentos_obrigatorios' = procedimentos_obrigatorios
    ELSE /\ chamada'.retorno = TRUE
         /\ novo \in DOMAIN procedimentos_db'
         /\ procedimentos_db'[novo].requer_laudo = procedimentos_db[antigo].requer_laudo
         /\ \A n \in DOMAIN procedimentos_db \ {antigo, novo} :
               n \in DOMAIN procedimentos_db' /\ procedimentos_db'[n] = procedimentos_db[n]
         /\ DOMAIN procedimentos_db' \subseteq DOMAIN procedimentos_db \cup {novo}
         /\ Contem(procedimentos_obrigatorios, antigo) =>
               /\ Len(procedimentos_obrigatorios') = Len(procedimentos_obrigatorios)
               /\ \A i \in 1..Len(procedimentos_obrigatorios) :
                     procedimentos_obrigatorios'[i] =
                        IF i = index(procedimentos_obrigatorios, antigo)
                        THEN novo ELSE procedimentos_obrigatorios[i]

\* C15: editar_procedimento_db returns False and changes nothing if the old
\* name is not a key or the new name is empty; otherwise it returns True, the
\* catalog no longer has the old key, the new key carries the old requer_laudo,
\* every other entry is unchanged and the new name takes the old name's
\* position in the mandatory list.
C15_Renomear ==
    [][(chamada'.op = "editar_procedimento_db" /\ passos' = passos + 1) =>
          /\ RenomearComum(chamada'.arg1, chamada'.arg2)
          /\ chamada'.retorno => chamada'.arg1 \notin DOMAIN procedimentos_db']_vars

\* C15, amended: as above, but the old key is gone only when the new name
\* differs from it; renaming a procedure to its own name succeeds and keeps it.
C15_RenomearCorrigido ==
    [][(chamada'.op = "editar_procedimento_db" /\ passos' = passos + 1) =>
          /\ RenomearComum(chamada'.arg1, chamada'.arg2)
          /\ (chamada'.retorno /\ chamada'.arg1 # chamada'.arg2) =>
                chamada'.arg1 \notin DOMAIN procedimentos_db'
          /\ (chamada'.retorno /\ chamada'.arg1 = chamada'.arg2) =>
                chamada'.arg1 \in DOMAIN procedimentos_db']_vars

\* a mandatory procedure that requires a report was renamed to a new name
C15_Witness ==
    /\ chamada.op = "editar_procedimento_db"
    /\ chamada.retorno
    /\ chamada.arg1 = "Espirometria"
    /\ chamada.arg2 = "Ergometria"
    /\ "Espirometria" \notin DOMAIN procedimentos_db
    /\ procedimentos_db["Ergometria"].requer_laudo
    /\ procedimentos_obrigatorios[1] = "Ergometria"

\* C16: whatever readable catalog and configuration files the startup finds,
\* afterwards the three baseline names are keys of the catalog and members of
\* the mandatory list, the entries of the catalog file keep their requer_laudo
\* and the names of the configuration file keep their positions, and a second
\* reconciliation, or a second startup, changes neither catalog nor list.
C16_ReconciliacaoInicial ==
    [][(fase = "inicio" /\ fase' = "pronto") =>
          /\ Range(obrigatorios_padrao) \subseteq DOMAIN procedimentos_db'
          /\ \A i \in 1..Len(obrigatorios_padrao) :
                Contem(procedimentos_obrigatorios', obrigatorios_padrao[i])
          /\ arq_procedimentos.estado = "dict" =>
                \A n \in DOMAIN arq_procedimentos.dados :
                   n \in DOMAIN procedimentos_db'
                   /\ procedimentos_db'[n] = arq_procedimentos.dados[n]
          /\ arq_procedimentos.estado = "lista" =>
                \A n \in Range(arq_procedimentos.lista) :
                   n \in DOMAIN procedimentos_db' /\ ~procedimentos_db'[n].requer_laudo
          /\ (arq_config.estado = "json"
              /\ "procedimentos_obrigatorios" \in DOMAIN arq_config.config) =>
                LET salvos == arq_config.config.procedimentos_obrigatorios
                IN  /\ Len(salvos) <= Len(procedimentos_obrigatorios')
                    /\ SubSeq(procedimentos_obrigatorios', 1, Len(salvos)) = salvos
          /\ garantir_db(procedimentos_db', obrigatorios_padrao) = procedimentos_db'
          /\ acrescentar_faltantes(procedimentos_obrigatorios', obrigatorios_padrao)
                = procedimentos_obrigatorios'
          /\ LET segundo == SistemaClinico(arq_procedimentos', arq_config')
             IN  /\ segundo.ok
                 /\ segundo.db = procedimentos_db'
                 /\ segundo.obrig = procedimentos_obrigatorios'
                 /\ segundo.arq_procedimentos = arq_procedimentos'
                 /\ segundo.arq_config = arq_config']_vars

\* a startup on a catalog and a configuration that lacked baseline names
C16_Witness ==
    /\ fase = "pronto"
    /\ passos = 0
    /\ DOMAIN procedimentos_db = {"Espirometria", "Triagem", "Exame Clínico", "Faturamento"}
    /\ procedimentos_db["Espirometria"].requer_laudo
    /\ procedimentos_obrigatorios = <<"Espirometria", "Triagem", "Exame Clínico", "Faturamento">>

----------------------------------------------------------------------------
(* GerenciadorHistorico: the queries                                        *)

\* str.lower() of one character, on the letters the names are written with
minuscula(c) ==
    CASE c = "A" -> "a"
      [] c = "B" -> "b"
      [] c = "I" -> "i"
      [] c = "N" -> "n"
      [] OTHER -> c

\* str.lower()
lower_texto(s) == [i \in 1..Len(s) |-> minuscula(s[i])]

\* Python's `sub in s` on strings
contem_texto(sub, s) ==
    \E i \in 0..(Len(s) - Len(sub)) : SubSeq(s, i + 1, i + Len(sub)) = sub

\* str.replace(c, '')
sem_caractere(s, c) == SelectSeq(s, LAMBDA x : x # c)

\* the sorted list with one more record, put after the records whose timestamp
\* is greater or equal
inserir_por_timestamp(ordenados, r) ==
    LET k == Cardinality({i \in 1..Len(ordenados) : ordenados[i].timestamp >= r.timestamp})
    IN  SubSeq(ordenados, 1, k) \o <<r>> \o SubSeq(ordenados, k + 1, Len(ordenados))

\* a variant of the sort that leaves the list in insertion order
sem_ordenar_timestamp(resultados) == resultados

\* sorted(resultados, key=lambda x: x['timestamp'], reverse=True): a stable sort
RECURSIVE sorted_timestamp(_)
sorted_timestamp(resultados) ==
    IF resultados = <<>> THEN <<>>
    ELSE inserir_por_timestamp(
            sorted_timestamp(SubSeq(resultados, 1, Len(resultados) - 1)),
            resultados[Len(resultados)])

\* buscar_por_funcionario
buscar_por_funcionario(hist, nome_parcial) ==
    LET nome_limpo == lower_texto(strip(nome_parcial))
    IN  sorted_timestamp(SelectSeq(hist, LAMBDA r : contem_texto(nome_limpo, lower_texto(r.nome))))

\* a variant of limpar_cpf that removes the dots only
limpar_so_pontos(cpf) == strip(sem_caractere(cpf, "."))

\* cpf.replace('.', '').replace('-', '').strip()
limpar_cpf(cpf) == strip(sem_caractere(sem_caractere(cpf, "."), "-"))

\* buscar_por_cpf
buscar_por_cpf(hist, cpf) ==
    LET cpf_limpo == limpar_cpf(cpf)
    IN  sorted_timestamp(SelectSeq(hist, LAMBDA r : cpf_limpo = limpar_cpf(r.cpf)))

\* the first loop of obter_funcionarios_unicos from record i on: the dict
\* funcionarios (a function) and the order in which its keys were inserted
RECURSIVE coletar_funcionarios(_, _, _, _)
coletar_funcionarios(hist, i, funcionarios, ordem) ==
    IF i > Len(hist) THEN [funcionarios |-> funcionarios, ordem |-> ordem]
    ELSE LET registro == hist[i]
             nome == registro.nome
             resumo == [nome |-> registro.nome,
                        cpf |-> registro.cpf,
                        ultimo_tipo_exame |-> registro.tipo_exame,
                        ultima_data |-> registro.data_formatada,
                        total_checklists |-> 0,
                        timestamp |-> registro.timestamp]
         IN  IF nome \notin DOMAIN funcionarios
             THEN coletar_funcionarios(hist, i + 1,
                      [n \in DOMAIN funcionarios \cup {nome} |->
                          IF n = nome THEN resumo ELSE funcionarios[n]],
                      Append(ordem, nome))
             ELSE IF registro.timestamp > funcionarios[nome].timestamp
             THEN coletar_funcionarios(hist, i + 1,
                      [funcionarios EXCEPT ![nome] = resumo], ordem)
             ELSE coletar_funcionarios(hist, i + 1, funcionarios, ordem)

\* a variant of the second loop that counts every record for every person
contar_todos(hist, nome) == Len(hist)

\* the second loop: funcionarios[nome]['total_checklists'] after it
contar_checklists(hist, nome) ==
    Cardinality({i \in 1..Len(hist) : hist[i].nome = nome})

\* obter_funcionarios_unicos: list(funcionarios.values())
obter_funcionarios_unicos(hist) ==
    LET c == coletar_funcionarios(hist, 1, <<>>, <<>>)
    IN  [k \in 1..Len(c.ordem) |->
            [c.funcionarios[c.ordem[k]] EXCEPT
                !.total_checklists = contar_checklists(hist, c.ordem[k])]]

\* the loop of the empty filter: for every person of obter_funcionarios_unicos
\* the first record of buscar_por_funcionario(func['nome']), if there is one
RECURSIVE primeiros_registros(_, _)
primeiros_registros(hist, funcionarios) ==
    IF funcionarios = <<>> THEN <<>>
    ELSE LET registros_func == buscar_por_funcionario(hist, Head(funcionarios).nome)
         IN  (IF registros_func # <<>> THEN <<registros_func[1]>> ELSE <<>>)
             \o primeiros_registros(hist, Tail(funcionarios))

\* str.isdigit(): not empty and digits only
todos_digitos(s) == s # <<>> /\ \A i \in 1..Len(s) : isdigit(s[i])

\* carregar_lista_historico: the records whose items the list shows
carregar_lista_historico(hist, filtro) ==
    IF filtro # <<>>
    THEN IF todos_digitos(sem_caractere(sem_caractere(filtro, "."), "-"))
         THEN buscar_por_cpf(hist, filtro)
         ELSE buscar_por_funcionario(hist, filtro)
    ELSE primeiros_registros(hist, obter_funcionarios_unicos(hist))

----------------------------------------------------------------------------
(* Specification of the store: records are appended, the queries are called *)

\* bound on the number of records
MaxRegistros == 3

\* the people checklists are generated for: name and CPF as stored
Pessoas ==
    {[nome |-> <<"A", "n", "a">>, cpf |-> <<"1", "2", ".", "3">>],
     [nome |-> <<"B", "i", "a">>, cpf |-> <<"1", "-", "2", "3">>],
     [nome |-> <<"a", "n", "a", " ", "b">>, cpf |-> <<"1", "2", "4">>]}

\* the texts typed in the search field
ConsultasNome == {<<"a", "n">>, <<" ", "A", "N", " ">>, <<"B">>, <<>>, <<"z">>}
ConsultasCpf == {<<"1", "2", "3">>, <<"1", "2", ".", "3">>, <<" ", "1", "2", "3">>, <<"1", ".", "2", "-", "4">>, <<"9", "9", "9">>}

InitBusca ==
    /\ fase = "busca"
    /\ passos = 0
    /\ chamada = [op |-> "nenhuma"]
    /\ historico = <<>>
    /\ arq_historico = Ausente
    /\ entrada = Nenhum
    /\ SemArquivos /\ SemSelecao /\ SemFormulario /\ SemPdf /\ SemLayout
    /\ procedimentos_db = <<>>
    /\ procedimentos_obrigatorios = <<>>

foraDaBusca == <<fase, passos, varsCatalogo, procedimentos_selecionados, varsFormulario,
                 varsPdf, varsLayout, entrada>>

\* historico.adicionar_checklist(...); the local clock gives any instant
AdicionarChecklist(pessoa, tipo, instante) ==
    /\ Len(historico) < MaxRegistros
    /\ LET r == adicionar_checklist(historico, pessoa.nome, pessoa.cpf, tipo,
                                    <<"Triagem", "Exame Clínico", "Faturamento">>,
                                    filename(pessoa.nome, instante), instante)
       IN  /\ historico' = r.historico
           /\ arq_historico' = salvar_historico(r.historico)
           /\ chamada' = [op |-> "adicionar_checklist", id |-> r.id]
    /\ UNCHANGED foraDaBusca

\* historico.buscar_por_funcionario(nome_parcial)
BuscarPorFuncionario(nome_parcial) ==
    /\ chamada' = [op |-> "buscar_por_funcionario", arg |-> nome_parcial,
                   retorno |-> buscar_por_funcionario(historico, nome_parcial)]
    /\ UNCHANGED <<varsHistorico, foraDaBusca>>

\* historico.buscar_por_cpf(cpf)
BuscarPorCpf(cpf) ==
    /\ chamada' = [op |-> "buscar_por_cpf", arg |-> cpf,
                   retorno |-> buscar_por_cpf(historico, cpf)]
    /\ UNCHANGED <<varsHistorico, foraDaBusca>>

\* historico.obter_funcionarios_unicos()
ObterFuncionariosUnicos ==
    /\ chamada' = [op |-> "obter_funcionarios_unicos",
                   retorno |-> obter_funcionarios_unicos(historico)]
    /\ UNCHANGED <<varsHistorico, foraDaBusca>>

\* the texts of the search field of the history dialog: empty when the dialog
\* opens, then part of a name or a CPF
FiltrosHistorico == {<<>>, <<"a", "n">>, <<"1", "2", ".", "3">>}

\* the history dialog fills its list: carregar_lista_historico(lista, filtro)
CarregarListaHistorico(filtro) ==
    /\ chamada' = [op |-> "carregar_lista_historico", filtro |-> filtro,
                   registros |-> carregar_lista_historico(historico, filtro)]
    /\ UNCHANGED <<varsHistorico, foraDaBusca>>

NextBusca ==
    \/ \E pessoa \in Pessoas, tipo \in TiposExame, instante \in 0..MaxRelogio :
          AdicionarChecklist(pessoa, tipo, instante)
    \/ \E q \in ConsultasNome : BuscarPorFuncionario(q)
    \/ \E q \in ConsultasCpf : BuscarPorCpf(q)
    \/ ObterFuncionariosUnicos
    \/ \E filtro \in FiltrosHistorico : CarregarListaHistorico(filtro)

SpecBusca == InitBusca /\ [][NextBusca]_vars

\* the result holds exactly the records of the store that satisfy casa, each
\* once, the most recent first
ResultadoDaBusca(resultado, casa(_)) ==
    LET casados == {i \in 1..Len(historico) : casa(historico[i])}
    IN  /\ Range(resultado) = {historico[i] : i \in casados}
        /\ Len(resultado) = Cardinality(casados)
        /\ \A i, j \in 1..Len(resultado) :
              i < j => resultado[i].timestamp >= resultado[j].timestamp

\* text q occurs in text s when letter case is ignored
OcorreSemCaixa(q, s) ==
    \E i \in 0..(Len(s) - Len(q)) :
       \A k \in 1..Len(q) : minuscula(s[i + k]) = minuscula(q[k])

\* C17: buscar_por_funcionario returns exactly the records whose name contains
\* the trimmed query as a substring, letter case ignored, the most recent
\* first, and leaves the store unchanged.
C17_BuscarPorFuncionario ==
    [][chamada'.op = "buscar_por_funcionario" =>
          /\ UNCHANGED varsHistorico
          /\ ResultadoDaBusca(chamada'.retorno,
                LAMBDA r : OcorreSemCaixa(strip(chamada'.arg), r.nome))]_vars

\* the query " AN " found two of three records; the one appended later is older
C17_Witness ==
    /\ chamada.op = "buscar_por_funcionario"
    /\ chamada.arg = <<" ", "A", "N", " ">>
    /\ Len(historico) = 3
    /\ Len(chamada.retorno) = 2
    /\ chamada.retorno[1].id < chamada.retorno[2].id
    /\ chamada.retorno[1].timestamp > chamada.retorno[2].timestamp

\* '.' and '-' removed
SemPontuacao(cpf) == SelectSeq(cpf, LAMBDA c : c \notin {".", "-"})

\* the other queries give the same answer when they differ from the query of
\* the call only in '.' and '-'
MesmaRespostaSemPontuacao ==
    \A q \in ConsultasCpf :
       SemPontuacao(q) = SemPontuacao(chamada'.arg) =>
          buscar_por_cpf(historico', q) = chamada'.retorno

\* C18: buscar_por_cpf returns exactly the records whose CPF equals the query
\* once '.' and '-' are removed from both, the most recent first; queries that
\* differ only in that punctuation return the same records.
C18_BuscarPorCpf ==
    [][chamada'.op = "buscar_por_cpf" =>
          /\ ResultadoDaBusca(chamada'.retorno,
                LAMBDA r : SemPontuacao(r.cpf) = SemPontuacao(chamada'.arg))
          /\ MesmaRespostaSemPontuacao]_vars

\* C18, amended: the CPFs are compared once '.' and '-' are removed and the
\* blanks around what remains are trimmed.
C18_BuscarPorCpfCorrigido ==
    [][chamada'.op = "buscar_por_cpf" =>
          /\ ResultadoDaBusca(chamada'.retorno,
                LAMBDA r : strip(SemPontuacao(r.cpf)) = strip(SemPontuacao(chamada'.arg)))
          /\ MesmaRespostaSemPontuacao]_vars

\* the query "12.3" found the records stored as "12.3" and as "1-23"
C18_Witness ==
    /\ chamada.op = "buscar_por_cpf"
    /\ chamada.arg = <<"1", "2", ".", "3">>
    /\ Len(chamada.retorno) = 2
    /\ chamada.retorno[1].cpf = <<"1", "-", "2", "3">>
    /\ chamada.retorno[2].cpf = <<"1", "2", ".", "3">>
    /\ Len(historico) = 3

RECURSIVE SomaDosTotais(_)
SomaDosTotais(resumos) ==
    IF resumos = <<>> THEN 0
    ELSE Head(resumos).total_checklists + SomaDosTotais(Tail(resumos))

\* C19: obter_funcionarios_unicos returns one summary per distinct name of the
\* store; the summary has the exam type and the date of a record of greatest
\* timestamp among those of exactly that name and counts those records, so the
\* counts add up to the number of records.
C19_FuncionariosUnicos ==
    [][chamada'.op = "obter_funcionarios_unicos" =>
          LET resumos == chamada'.retorno
              nomes == {historico[i].nome : i \in 1..Len(historico)}
              DoNome(n) == {i \in 1..Len(historico) : historico[i].nome = n}
          IN  /\ UNCHANGED varsHistorico
              /\ Len(resumos) = Cardinality(nomes)
              /\ {resumos[k].nome : k \in 1..Len(resumos)} = nomes
              /\ \A k \in 1..Len(resumos) :
                    /\ resumos[k].total_checklists = Cardinality(DoNome(resumos[k].nome))
                    /\ \E i \in DoNome(resumos[k].nome) :
                          /\ \A j \in DoNome(resumos[k].nome) :
                                historico[i].timestamp >= historico[j].timestamp
                          /\ resumos[k].ultimo_tipo_exame = historico[i].tipo_exame
                          /\ resumos[k].ultima_data = historico[i].data_formatada
              /\ SomaDosTotais(resumos) = Len(historico)]_vars

\* two people in three records; the person with two records has the older one
\* appended last
C19_Witness ==
    /\ chamada.op = "obter_funcionarios_unicos"
    /\ Len(historico) = 3
    /\ Len(chamada.retorno) = 2
    /\ chamada.retorno[1].total_checklists = 2
    /\ chamada.retorno[1].nome = historico[3].nome
    /\ chamada.retorno[1].timestamp > historico[3].timestamp
    /\ chamada.retorno[1].ultimo_tipo_exame # historico[3].tipo_exame

----------------------------------------------------------------------------
(* The records of the store                                                 *)

\* C20: while the application runs the store only grows at its end and no
\* action changes a field of a record already stored: its procedimentos stay
\* the list of the append, editado stays False, historico_edicoes stays empty.
C20_RegistrosImutaveis ==
    [][Rodando =>
          /\ Len(historico') >= Len(historico)
          /\ \A k \in 1..Len(historico) : historico'[k] = historico[k]
          /\ \A k \in 1..Len(historico') :
                /\ ~historico'[k].editado
                /\ historico'[k].historico_edicoes = <<>>]_vars

\* a record was appended after an older one, then the selection was changed
C20_Witness ==
    /\ Len(historico) = 2
    /\ chamada.op = "outra"
    /\ historico[2].procedimentos # historico[1].procedimentos
    /\ procedimentos_selecionados # historico[2].procedimentos
    /\ \A k \in 1..2 : ~historico[k].editado /\ historico[k].historico_edicoes = <<>>

----------------------------------------------------------------------------
(* The files of the documents                                               *)

\* C21: no two generations yield the same filename, so no two records of the
\* store name the same file, not even two records generated for the same
\* person within the same second.
C21_ArquivosDistintos ==
    \A i, j \in 1..Len(historico) :
       i # j => historico[i].arquivo_pdf # historico[j].arquivo_pdf

----------------------------------------------------------------------------
(* The validators and the CPF routines as pure functions                    *)
(*                                                                          *)
(* ValidadorAvancado has only static methods and validar_cpf and            *)
(* formatar_cpf read no field of SistemaClinico, so a call changes nothing  *)
(* but its answer; chamada records the arguments and the answer.            *)

MaxNome == 4
MaxLista == 3

\* every text of at most n characters of the alphabet
Textos(alfabeto, n) == UNION {[1..k -> alfabeto] : k \in 0..n}

\* the names given to validar_nome_completo: a letter, the blank, a digit
NomesValidados == Textos({"a", " ", "1"}, MaxNome)

\* the lists given to validar_procedimentos_minimos, repetitions allowed
ListasValidadas == Textos({"Triagem", "Espirometria", "Faturamento"}, MaxLista)

\* the selections and exam types given to the compatibility rule
ListasCompatibilidade ==
    Textos({"Raio-X Tórax", "Espirometria", "espirometria", "Triagem"}, MaxLista)
TiposValidados == {"Admissional", "Demissional", "DEMISSIONAL", "demissional"}

\* 123.456.789-09 is the valid CPF of the tests; 529.982.247-25 is valid too
PrefixosCpf ==
    {<<"1", "2", "3", "4", "5", "6", "7", "8", "9">>,
     <<"5", "2", "9", "9", "8", "2", "2", "4", "7">>,
     <<"1", "1", "1", "1", "1", "1", "1", "1", "1">>}

\* eleven digits: a prefix and any two last digits
CpfsOnze == {p \o <<a, b>> : p \in PrefixosCpf, a \in Range(Digitos), b \in Range(Digitos)}

\* the same eleven digits the way a person types them
Pontuado(c) ==
    SubSeq(c, 1, 3) \o <<".">> \o SubSeq(c, 4, 6) \o <<".">> \o SubSeq(c, 7, 9)
    \o <<"-">> \o SubSeq(c, 10, 11)

CpfDosTestes == <<"1", "2", "3", "4", "5", "6", "7", "8", "9", "0", "9">>

\* the texts given to validar_cpf and formatar_cpf: eleven digits bare and
\* punctuated, eleven times the same digit, every shorter beginning of the CPF
\* of the tests bare, punctuated and with a letter in front, and texts of
\* twelve and thirteen digits
TextosCpf ==
    CpfsOnze
    \cup {[i \in 1..11 |-> c] : c \in Range(Digitos)}
    \cup {Pontuado(c) : c \in CpfsOnze}
    \cup {SubSeq(CpfDosTestes, 1, k) : k \in 0..10}
    \cup {SubSeq(Pontuado(CpfDosTestes), 1, k) : k \in 0..14}
    \cup {<<"a">> \o SubSeq(CpfDosTestes, 1, k) \o <<" ">> : k \in 0..11}
    \cup {CpfDosTestes \o <<"9">>, CpfDosTestes \o <<"0", "9">>,
          Pontuado(CpfDosTestes) \o <<"7">>}

\* the calls: the routine and its arguments
EntradasValidacao ==
    {[rotina |-> "validar_nome_completo", nome |-> n] : n \in NomesValidados}
    \cup {[rotina |-> "validar_procedimentos_minimos", procedimentos |-> l, obrigatorios |-> o] :
             l \in ListasValidadas, o \in ListasValidadas}
    \cup {[rotina |-> "validar_compatibilidade_tipo_procedimentos", tipo |-> t, selecao |-> l] :
             t \in TiposValidados, l \in ListasCompatibilidade}
    \cup {[rotina |-> "validar_cpf", cpf |-> c] : c \in TextosCpf}
    \cup {[rotina |-> "formatar_cpf", texto |-> c] : c \in TextosCpf}

InitValidacao ==
    /\ fase = "validacao"
    /\ passos = 0
    /\ chamada = [op |-> "nenhuma"]
    /\ entrada \in EntradasValidacao
    /\ SemArquivos /\ SemHistorico /\ SemSelecao /\ SemFormulario /\ SemPdf /\ SemLayout
    /\ procedimentos_db = <<>>
    /\ procedimentos_obrigatorios = <<>>

foraDaValidacao == <<fase, passos, varsCatalogo, varsHistorico, procedimentos_selecionados,
                     varsFormulario, varsPdf, varsLayout, entrada>>

\* ValidadorAvancado.validar_nome_completo(nome)
ValidarNomeCompleto ==
    /\ entrada.rotina = "validar_nome_completo"
    /\ chamada' = [op |-> "validar_nome_completo", nome |-> entrada.nome,
                   retorno |-> validar_nome_completo(entrada.nome)]
    /\ UNCHANGED foraDaValidacao

\* ValidadorAvancado.validar_procedimentos_minimos(procedimentos, obrigatorios)
ValidarProcedimentosMinimos ==
    /\ entrada.rotina = "validar_procedimentos_minimos"
    /\ chamada' = [op |-> "validar_procedimentos_minimos",
                   procedimentos |-> entrada.procedimentos,
                   obrigatorios |-> entrada.obrigatorios,
                   retorno |-> validar_procedimentos_minimos(entrada.procedimentos,
                                                             entrada.obrigatorios)]
    /\ UNCHANGED foraDaValidacao

\* ValidadorAvancado.validar_compatibilidade_tipo_procedimentos(tipo, procedimentos)
ValidarCompatibilidade ==
    /\ entrada.rotina = "validar_compatibilidade_tipo_procedimentos"
    /\ chamada' = [op |-> "validar_compatibilidade_tipo_procedimentos",
                   tipo |-> entrada.tipo, selecao |-> entrada.selecao,
                   retorno |-> validar_compatibilidade_tipo_procedimentos(entrada.tipo,
                                                                          entrada.selecao)]
    /\ UNCHANGED foraDaValidacao

\* sistema.validar_cpf(cpf)
ValidarCpf ==
    /\ entrada.rotina = "validar_cpf"
    /\ chamada' = [op |-> "validar_cpf", cpf |-> entrada.cpf,
                   retorno |-> validar_cpf(entrada.cpf)]
    /\ UNCHANGED foraDaValidacao

\* sistema.formatar_cpf(cpf)
FormatarCpf ==
    /\ entrada.rotina = "formatar_cpf"
    /\ chamada' = [op |-> "formatar_cpf", texto |-> entrada.texto,
                   retorno |-> formatar_cpf(entrada.texto)]
    /\ UNCHANGED foraDaValidacao

NextValidacao ==
    \/ ValidarNomeCompleto
    \/ ValidarProcedimentosMinimos
    \/ ValidarCompatibilidade
    \/ ValidarCpf
    \/ FormatarCpf

SpecValidacao == InitValidacao /\ [][NextValidacao]_vars

\* the characters of a name that are not blanks
NaoBrancos(nome) == {i \in 1..Len(nome) : nome[i] # " "}

\* the number of space-separated tokens: the places where a token ends
Tokens(nome) ==
    Cardinality({i \in NaoBrancos(nome) : i = Len(nome) \/ nome[i + 1] = " "})

\* the length of the name without its leading and trailing blanks
Aparado(nome) ==
    IF NaoBrancos(nome) = {} THEN 0
    ELSE (CHOOSE i \in NaoBrancos(nome) : \A j \in NaoBrancos(nome) : j <= i)
         - (CHOOSE i \in NaoBrancos(nome) : \A j \in NaoBrancos(nome) : i <= j) + 1

SemDigito(nome) == \A i \in 1..Len(nome) : nome[i] \notin Range(Digitos)

\* C22: name_is_complete answers ok exactly when the name has at least 3
\* characters that are not blanks, at least two space-separated tokens and no
\* digit; otherwise it answers false with a message.
C22_NomeCompleto ==
    chamada.op = "validar_nome_completo" =>
       /\ chamada.retorno.ok <=> /\ Cardinality(NaoBrancos(chamada.nome)) >= 3
                                 /\ Tokens(chamada.nome) >= 2
                                 /\ SemDigito(chamada.nome)
       /\ ~chamada.retorno.ok => chamada.retorno.mensagem # ""

\* C22 as the code has it: the 3 characters are counted on the name without its
\* leading and trailing blanks, the blanks between the tokens included.
C22_NomeCompletoCorrigido ==
    chamada.op = "validar_nome_completo" =>
       /\ chamada.retorno.ok <=> /\ Aparado(chamada.nome) >= 3
                                 /\ Tokens(chamada.nome) >= 2
                                 /\ SemDigito(chamada.nome)
       /\ ~chamada.retorno.ok => chamada.retorno.mensagem # ""

\* the name "a a", two letters and a blank, is accepted
C22_Witness ==
    /\ chamada.op = "validar_nome_completo"
    /\ chamada.nome = <<"a", " ", "a">>
    /\ chamada.retorno.ok

\* the places of obrigatorios whose name is not in procedimentos
LugaresFaltantes(procedimentos, obrigatorios) ==
    {i \in 1..Len(obrigatorios) : obrigatorios[i] \notin Range(procedimentos)}

\* nomes is the names at those places, in the order of obrigatorios
ListaOsFaltantes(nomes, procedimentos, obrigatorios) ==
    LET lugares == LugaresFaltantes(procedimentos, obrigatorios)
    IN  /\ Len(nomes) = Cardinality(lugares)
        /\ \A i \in lugares :
              nomes[Cardinality({j \in lugares : j <= i})] = obrigatorios[i]

\* C23: has_mandatory answers ok exactly when every mandatory name is in the
\* selection; otherwise its message lists exactly the mandatory names missing
\* from the selection, in the order of the mandatory list.
C23_ObrigatoriosPresentes ==
    chamada.op = "validar_procedimentos_minimos" =>
       /\ chamada.retorno.ok <=>
             LugaresFaltantes(chamada.procedimentos, chamada.obrigatorios) = {}
       /\ ~chamada.retorno.ok =>
             /\ chamada.retorno.mensagem = "Procedimentos obrigatórios faltantes"
             /\ ListaOsFaltantes(chamada.retorno.nomes, chamada.procedimentos,
                                 chamada.obrigatorios)

\* C23 as the code has it: an empty selection fails first, with the message
\* that asks for a procedure and names none; a selection that is not empty is
\* answered as stated.
C23_ObrigatoriosPresentesCorrigido ==
    chamada.op = "validar_procedimentos_minimos" =>
       /\ chamada.retorno.ok <=>
             /\ chamada.procedimentos # <<>>
             /\ LugaresFaltantes(chamada.procedimentos, chamada.obrigatorios) = {}
       /\ chamada.procedimentos = <<>> =>
             /\ chamada.retorno.mensagem = "Selecione pelo menos um procedimento"
             /\ chamada.retorno.nomes = <<>>
       /\ chamada.procedimentos # <<>> /\ ~chamada.retorno.ok =>
             /\ chamada.retorno.mensagem = "Procedimentos obrigatórios faltantes"
             /\ ListaOsFaltantes(chamada.retorno.nomes, chamada.procedimentos,
                                 chamada.obrigatorios)

\* a selection that lacks the first and the last of three mandatory names
C23_Witness ==
    /\ chamada.op = "validar_procedimentos_minimos"
    /\ chamada.procedimentos = <<"Espirometria">>
    /\ chamada.obrigatorios = <<"Faturamento", "Espirometria", "Triagem">>
    /\ chamada.retorno.nomes = <<"Faturamento", "Triagem">>

\* the two procedures a termination exam forbids, and the spellings of the
\* exam type among the types given
Proibidos == {"Raio-X Tórax", "Espirometria"}
Demissionais == {"demissional", "Demissional", "DEMISSIONAL"}

\* the places of the selection that hold a forbidden name
LugaresProibidos(selecao) == {i \in 1..Len(selecao) : selecao[i] \in Proibidos}

\* C24: compatible fails exactly when the exam type is 'demissional' in any
\* letter case and the selection holds 'Raio-X Tórax' or 'Espirometria'; the
\* message then lists exactly the forbidden names of the selection, as they
\* come in it; any other type or selection is ok.
C24_Compatibilidade ==
    chamada.op = "validar_compatibilidade_tipo_procedimentos" =>
       LET lugares == LugaresProibidos(chamada.selecao)
           nomes == chamada.retorno.nomes
       IN  /\ ~chamada.retorno.ok <=> (chamada.tipo \in Demissionais /\ lugares # {})
           /\ ~chamada.retorno.ok =>
                 /\ Range(nomes) = Range(chamada.selecao) \cap Proibidos
                 /\ Len(nomes) = Cardinality(lugares)
                 /\ \A i \in lugares :
                       nomes[Cardinality({j \in lugares : j <= i})] = chamada.selecao[i]
           /\ chamada.retorno.ok => chamada.retorno.mensagem = ""

\* a termination exam typed with a capital, with both forbidden procedures
C24_Witness ==
    /\ chamada.op = "validar_compatibilidade_tipo_procedimentos"
    /\ chamada.tipo = "Demissional"
    /\ chamada.selecao = <<"Espirometria", "Triagem", "Raio-X Tórax">>
    /\ ~chamada.retorno.ok
    /\ chamada.retorno.nomes = <<"Espirometria", "Raio-X Tórax">>

\* the digits of a text, and the value of the digit at a place
DigitosDe(texto) == SelectSeq(texto, LAMBDA c : c \in Range(Digitos))
Valor(d, i) == (CHOOSE k \in 1..10 : Digitos[k] = d[i]) - 1

\* the weighted sums of the rule: weights 10..2 over the first 9 digits and
\* weights 11..2 over the first 10 digits
SomaPrimeiro(d) ==
    10 * Valor(d, 1) + 9 * Valor(d, 2) + 8 * Valor(d, 3) + 7 * Valor(d, 4)
    + 6 * Valor(d, 5) + 5 * Valor(d, 6) + 4 * Valor(d, 7) + 3 * Valor(d, 8)
    + 2 * Valor(d, 9)
SomaSegundo(d) ==
    11 * Valor(d, 1) + 10 * Valor(d, 2) + 9 * Valor(d, 3) + 8 * Valor(d, 4)
    + 7 * Valor(d, 5) + 6 * Valor(d, 6) + 5 * Valor(d, 7) + 4 * Valor(d, 8)
    + 3 * Valor(d, 9) + 2 * Valor(d, 10)

\* 11 minus the sum modulo 11, with 10 and 11 taken as 0: that is ten times
\* the sum modulo 11, with 10 taken as 0
DigitoDaRegra(soma) == ((10 * soma) % 11) % 10

CpfAceito(texto) ==
    LET d == DigitosDe(texto)
    IN  /\ Len(d) = 11
        /\ \E i \in 1..11 : d[i] # d[1]
        /\ Valor(d, 10) = DigitoDaRegra(SomaPrimeiro(d))
        /\ Valor(d, 11) = DigitoDaRegra(SomaSegundo(d))

\* C25: validar_cpf accepts a text exactly when its digits are 11, not all the
\* same, and the last two are the check digits of the weighted sums; so eleven
\* equal digits and fewer than 11 digits are rejected and 12345678909 is
\* accepted.
C25_ValidarCpf ==
    chamada.op = "validar_cpf" =>
       /\ chamada.retorno = CpfAceito(chamada.cpf)
       /\ Len(DigitosDe(chamada.cpf)) < 11 => chamada.retorno = FALSE
       /\ (\E c \in Range(Digitos) : DigitosDe(chamada.cpf) = [i \in 1..11 |-> c])
             => chamada.retorno = FALSE
       /\ chamada.cpf = CpfDosTestes => chamada.retorno = TRUE

\* 123.456.789-09 typed with its punctuation is accepted; its first check
\* digit is a 10 taken as 0
C25_Witness ==
    /\ chamada.op = "validar_cpf"
    /\ chamada.cpf = Pontuado(CpfDosTestes)
    /\ 11 - (SomaPrimeiro(CpfDosTestes) % 11) = 10
    /\ chamada.retorno = TRUE

\* a text without its dots and hyphens
SemMascara(texto) == SelectSeq(texto, LAMBDA c : c \notin {".", "-"})

\* how many digits the mask shows: no more than 11
Mostrados(texto) == IF Len(DigitosDe(texto)) <= 11 THEN Len(DigitosDe(texto)) ELSE 11

\* the masked text of n digits: ddd, ddd.ddd, ddd.ddd.ddd or ddd.ddd.ddd-dd
Mascarado(saida, n) ==
    /\ Len(saida) = n + (IF n > 3 THEN 1 ELSE 0) + (IF n > 6 THEN 1 ELSE 0)
                      + (IF n > 9 THEN 1 ELSE 0)
    /\ n > 3 => saida[4] = "."
    /\ n > 6 => saida[8] = "."
    /\ n > 9 => saida[12] = "-"
    /\ \A i \in 1..Len(saida) : i \notin {4, 8, 12} => saida[i] \in Range(Digitos)

\* C26: formatar_cpf masks the digits of its input as ddd, ddd.ddd,
\* ddd.ddd.ddd or ddd.ddd.ddd-dd according to their number, keeps the digits
\* (the first 11 of them) in their order, and formatting its own output again,
\* with or without the punctuation removed first, gives the same output.
C26_FormatarCpf ==
    chamada.op = "formatar_cpf" =>
       /\ Mascarado(chamada.retorno, Mostrados(chamada.texto))
       /\ DigitosDe(chamada.retorno)
             = SubSeq(DigitosDe(chamada.texto), 1, Mostrados(chamada.texto))
       /\ formatar_cpf(chamada.retorno) = chamada.retorno
       /\ formatar_cpf(SemMascara(chamada.retorno)) = chamada.retorno

\* the eleven digits of the CPF of the tests, masked
C26_Witness ==
    /\ chamada.op = "formatar_cpf"
    /\ chamada.texto = CpfDosTestes
    /\ chamada.retorno = <<"1", "2", "3", ".", "4", "5", "6", ".", "7", "8", "9", "-", "0", "9">>

----------------------------------------------------------------------------
(* The catalog file of the old format, and the mandatory list as a set      *)

C28_ObrigatoriosSemRepeticao ==
    fase = "pronto" =>
       \A i, j \in 1..Len(procedimentos_obrigatorios) :
          i # j => procedimentos_obrigatorios[i] # procedimentos_obrigatorios[j]

----------------------------------------------------------------------------
(* The selection as a set                                                   *)

SemNomeRepetido(lista) ==
    \A i, j \in 1..Len(lista) : i # j => lista[i] # lista[j]

\* C29: whatever the user does, the current selection never holds a procedure
\* name twice, and so neither does the procedure list of any stored record.
C29_SelecaoSemRepeticao ==
    /\ SemNomeRepetido(procedimentos_selecionados)
    /\ \A k \in 1..Len(historico) : SemNomeRepetido(historico[k].procedimentos)

----------------------------------------------------------------------------
(* The history list without a filter                                        *)

\* the names of the people of the store
NomesDoHistorico == {historico[k].nome : k \in 1..Len(historico)}

\* C30: with an empty filter the history list shows exactly one entry for
\* every distinct name of the store, and the entry of a person is a most recent
\* record of that very name, never a record of another person whose name
\* contains it.
C30_UmaEntradaPorPessoa ==
    (chamada.op = "carregar_lista_historico" /\ chamada.filtro = <<>>) =>
       /\ Len(chamada.registros) = Cardinality(NomesDoHistorico)
       /\ \A nome \in NomesDoHistorico :
             \E k \in 1..Len(chamada.registros) :
                /\ chamada.registros[k].nome = nome
                /\ \A j \in 1..Len(chamada.registros) :
                      chamada.registros[j].nome = nome => j = k
                /\ \A i \in 1..Len(historico) :
                      historico[i].nome = nome =>
                         historico[i].timestamp <= chamada.registros[k].timestamp

====
